---- MODULE Spec2Model ----
(***************************************************************************)
(* A model of diffy's sequence-alignment core (package diff):              *)
(*   - the Comparable / ComparableSequence item families (ComparableRune,  *)
(*     TextLine with its DiffHash sketch),                                 *)
(*   - Diff_v2 (cost matrix + backtrace) as a state machine, one step per  *)
(*     loop iteration,                                                     *)
(*   - the LevenshteinDistance_v1 .. _v6 functions as operators,           *)
(*   - TextLine.Stringify and the realigner,                               *)
(* and of the two helpers around it: the alternating runs of the HTML      *)
(* output (package output) and ParseWords (package etc).                   *)
(*                                                                         *)
(* float32 values are integers in units of 1/One, One a power of two: a    *)
(* float32 has 24 significant bits, and the unit is the last of them in    *)
(* the smallest positive quotient of two sketch lengths.  Every quotient,  *)
(* sum and difference is rounded to 24 significant bits, ties to even, as  *)
(* the float32 operations of the code round them.                          *)
(***************************************************************************)
EXTENDS Integers, Sequences, FiniteSets, TLC

VARIABLES kind, s, t, pc, matrix, i, j, links, distance, result

vars == <<kind, s, t, pc, matrix, i, j, links, distance, result>>

(***************************************************************************)
(* Bounds of the model.                                                    *)
(***************************************************************************)
\* longest rune sequence given to Diff_v2
MaxLen == 3
\* longest sequence of text lines given to Diff_v2
MaxLines == 2
\* longest string (in characters) given to the LevenshteinDistance functions
MaxStrLen == 2
\* longest string (in characters) given to DiffHash.Init in the sketch runs
MaxHashStr == 5
\* longest alignment (in links) given to the realigner
MaxLinks == 4

\* longest text (in characters) given to TextLine.Stringify
MaxTextLen == 4
\* largest maxWidth given to TextLine.Stringify
MaxWidth == 5

\* longest text (in characters) given to ParseWords, the documented examples
\* apart
MaxWordsLen == 5

\* all sequences over S of length at most n
SeqsUpTo(S, n) == UNION {[1..k -> S] : k \in 0..n}

\* the runes of the rune sequences: 'a', 'b', 'c'
Alphabet == {97, 98, 99}

\* the characters of the strings: 'a', 'b' and the two-byte U+00E9 (e acute)
StrAlphabet == {97, 98, 233}

\* the characters of the strings of the sketch runs: '1', '2'
HashAlphabet == {49, 50}

\* the texts of the text lines ("abc", "abd", "ab", "cab", "abcd", ""): the
\* sketches of "abc" and "abd" part at their third value, the others are
\* prefixes of one another
LinePool ==
    {<<97, 98, 99>>, <<97, 98, 100>>, <<97, 98>>, <<99, 97, 98>>, <<97, 98, 99, 100>>,
     <<>>}

(***************************************************************************)
(* Small helpers.                                                          *)
(***************************************************************************)
Max(a, b) == IF a > b THEN a ELSE b

\* Go evaluates an argument once, before the call: F applied to the value of v
ByValue(F(_), v) == CHOOSE r \in {F(x) : x \in {v}} : TRUE

\* least k with 2^k >= n
RECURSIVE Log2Ceil(_)
Log2Ceil(n) == IF n <= 1 THEN 0 ELSE 1 + Log2Ceil((n + 1) \div 2)

RECURSIVE Pow2(_)
Pow2(n) == IF n = 0 THEN 1 ELSE 2 * Pow2(n - 1)

\* bitwise exclusive or and bitwise or of two naturals
RECURSIVE BitXor(_, _)
BitXor(a, b) ==
    IF a = 0 THEN b
    ELSE IF b = 0 THEN a
    ELSE (((a % 2) + (b % 2)) % 2) + 2 * BitXor(a \div 2, b \div 2)

RECURSIVE BitOr(_, _)
BitOr(a, b) ==
    IF a = 0 THEN b
    ELSE IF b = 0 THEN a
    ELSE Max(a % 2, b % 2) + 2 * BitOr(a \div 2, b \div 2)

(***************************************************************************)
(* uint32 values are pairs <<hi, lo>> of 16-bit halves (value hi * 2^16 +   *)
(* lo), so that every intermediate stays inside the checker's integers.     *)
(***************************************************************************)
Half == Pow2(16)

\* uint32(rune)
U32(r) == <<(r \div Half) % Half, r % Half>>

U32Less(x, y) == x[1] < y[1] \/ (x[1] = y[1] /\ x[2] < y[2])

U32Xor(x, y) == <<BitXor(x[1], y[1]), BitXor(x[2], y[2])>>

U32Or(x, y) == <<BitOr(x[1], y[1]), BitOr(x[2], y[2])>>

\* val << k on 32 bits (0 once k reaches 32)
U32Shl(val, k) ==
    IF k >= 32 THEN <<0, 0>>
    ELSE IF k >= 16 THEN <<(val[2] * Pow2(k - 16)) % Half, 0>>
    ELSE <<((val[1] * Pow2(k)) % Half) + (val[2] \div Pow2(16 - k)),
           (val[2] * Pow2(k)) % Half>>

\* val >> k on 32 bits (0 once k reaches 32)
U32Shr(val, k) ==
    IF k >= 32 THEN <<0, 0>>
    ELSE IF k >= 16 THEN <<0, val[1] \div Pow2(k - 16)>>
    ELSE <<val[1] \div Pow2(k),
           ((val[1] % Pow2(k)) * Pow2(16 - k)) + (val[2] \div Pow2(k))>>

\* sort.Sort with uint32_slice_sortAdaptor: the ascending rearrangement
RECURSIVE InsertSorted(_, _)
InsertSorted(x, sorted) ==
    IF sorted = <<>> THEN <<x>>
    ELSE IF ~U32Less(Head(sorted), x) THEN <<x>> \o sorted
    ELSE <<Head(sorted)>> \o InsertSorted(x, Tail(sorted))

\* the hashes left in the order Init wrote them
SortAscending_Unsorted(q) == q

RECURSIVE SortAscending(_)
SortAscending(q) ==
    IF q = <<>> THEN <<>> ELSE InsertSorted(Head(q), SortAscending(Tail(q)))

(***************************************************************************)
(* Go strings are byte sequences; []rune(s) decodes UTF-8 and              *)
(* string(runes) encodes it.                                               *)
(***************************************************************************)
\* the UTF-8 encoding of one rune; U+FFFD for a surrogate or a value out of
\* range
EncodeRune(r) ==
    IF r < 0 \/ r > 1114111 \/ (r >= 55296 /\ r <= 57343) THEN <<239, 191, 189>>
    ELSE IF r < 128 THEN <<r>>
    ELSE IF r < 2048 THEN <<192 + (r \div 64), 128 + (r % 64)>>
    ELSE IF r < 65536 THEN
        <<224 + (r \div 4096), 128 + ((r \div 64) % 64), 128 + (r % 64)>>
    ELSE <<240 + (r \div 262144), 128 + ((r \div 4096) % 64), 128 + ((r \div 64) % 64),
           128 + (r % 64)>>

RECURSIVE EncodeString(_)
EncodeString(runes) ==
    IF runes = <<>> THEN <<>> ELSE EncodeRune(Head(runes)) \o EncodeString(Tail(runes))

IsCont(b) == b >= 128 /\ b < 192

\* the rune of the well-formed sequence at the head of bytes and its width;
\* U+FFFD and width 1 for a stray byte, an overlong form, an encoded
\* surrogate or a value above U+10FFFF
DecodeRune(bytes) ==
    LET b == bytes[1]
        len == Len(bytes)
        Invalid == [rune |-> 65533, size |-> 1]
    IN  IF b < 128 THEN [rune |-> b, size |-> 1]
        ELSE IF b >= 194 /\ b < 224 THEN
            IF len >= 2 /\ IsCont(bytes[2]) THEN
                [rune |-> ((b - 192) * 64) + (bytes[2] - 128), size |-> 2]
            ELSE Invalid
        ELSE IF b >= 224 /\ b < 240 THEN
            IF len >= 3 /\ IsCont(bytes[2]) /\ IsCont(bytes[3]) THEN
                LET r == ((b - 224) * 4096) + ((bytes[2] - 128) * 64) + (bytes[3] - 128)
                IN  IF r >= 2048 /\ ~(r >= 55296 /\ r <= 57343) THEN
                        [rune |-> r, size |-> 3]
                    ELSE Invalid
            ELSE Invalid
        ELSE IF b >= 240 /\ b < 245 THEN
            IF len >= 4 /\ IsCont(bytes[2]) /\ IsCont(bytes[3]) /\ IsCont(bytes[4]) THEN
                LET r == ((b - 240) * 262144) + ((bytes[2] - 128) * 4096)
                             + ((bytes[3] - 128) * 64) + (bytes[4] - 128)
                IN  IF r >= 65536 /\ r <= 1114111 THEN [rune |-> r, size |-> 4]
                    ELSE Invalid
            ELSE Invalid
        ELSE Invalid

\* []rune(s): one rune per well-formed sequence, U+FFFD per ill-formed byte
RECURSIVE DecodeString(_)
DecodeString(bytes) ==
    IF bytes = <<>> THEN <<>>
    ELSE LET Rest(d) ==
                 <<d.rune>> \o ByValue(DecodeString, SubSeq(bytes, d.size + 1, Len(bytes)))
         IN  ByValue(Rest, DecodeRune(bytes))

\* ComparableString(s): the string as a sequence of ComparableRune items
ComparableString(str) == DecodeString(str)

(***************************************************************************)
(* DiffHash (text-line.go).                                                *)
(***************************************************************************)
rotateLeft(val, shiftCount) ==
    LET bitCount == 32
        shiftLeftCount == shiftCount % bitCount
        shiftRightCount == bitCount - shiftLeftCount
    IN  U32Or(U32Shl(val, shiftLeftCount), U32Shr(val, shiftRightCount))

\* the hash of the 4-rune window starting at rune k (1-based) of runes
WindowHash(runes, k) ==
    LET r0 == U32(runes[k])
        r1 == U32(runes[k + 1])
        r2 == U32(runes[k + 2])
        r3 == U32(runes[k + 3])
    IN  U32Xor(U32Xor(U32Xor(rotateLeft(r0, 24), rotateLeft(r1, 16)), rotateLeft(r2, 8)),
               r3)

\* DiffHash.Init: the rune values, then one hash per 4-rune window, sorted
DiffHash_Init(runes) ==
    LET runesLen == Len(runes)
        hashCount == IF runesLen > 3 THEN runesLen - 3 ELSE 0
    IN  SortAscending([k \in 1..runesLen |-> U32(runes[k])]
                      \o [k \in 1..hashCount |-> WindowHash(runes, k)])

\* the sketches of the line pool and of the strings of the sketch runs
HashRunes == SeqsUpTo(HashAlphabet, MaxHashStr)

\* longest of these sketches, and the unit of the fixed-point values
MaxHashLen ==
    LET lens == {Len(DiffHash_Init(x)) : x \in LinePool \cup HashRunes}
    IN  CHOOSE l \in lens : \A k \in lens : k <= l

\* 1.0: the unit is the last significant bit of 1 / MaxHashLen
FracBits == 23 + Log2Ceil(MaxHashLen)

One == Pow2(FracBits)

\* n, an integer of up to 31 bits, rounded to the 24 significant bits of a
\* float32, ties to even: step is the weight of the last bit kept; sticky
\* tells that the exact value lies above n (by less than one unit of n)
RoundToPrecision(n, sticky) ==
    LET Rounded(v) ==
            LET step == IF v < 16777216 THEN 1
                        ELSE IF v < 33554432 THEN 2
                        ELSE IF v < 67108864 THEN 4
                        ELSE IF v < 134217728 THEN 8
                        ELSE IF v < 268435456 THEN 16
                        ELSE IF v < 536870912 THEN 32
                        ELSE IF v < 1073741824 THEN 64
                        ELSE 128
                low == v % step
                odd == (v \div step) % 2 = 1
            IN  IF step > 1 /\ (2 * low > step \/ (2 * low = step /\ (sticky \/ odd)))
                THEN v - low + step
                ELSE v - low
    IN  ByValue(Rounded, n)

\* the float32 value "not a number"
NaN == -1

\* DiffHash.Similarity with the two tests on empty sketches left out
EarlyReturn_None(hashLen, hashLen2) == [returns |-> FALSE, value |-> 0]

\* DiffHash.Similarity with the first of the two tests left out
EarlyReturn_BothEmptyZero(hashLen, hashLen2) ==
    IF hashLen = 0 \/ hashLen2 = 0 THEN [returns |-> TRUE, value |-> 0]
    ELSE [returns |-> FALSE, value |-> 0]

\* the two tests on empty sketches at the head of DiffHash.Similarity
EarlyReturn(hashLen, hashLen2) ==
    IF hashLen = 0 /\ hashLen2 = 0 THEN [returns |-> TRUE, value |-> One]
    ELSE IF hashLen = 0 \/ hashLen2 = 0 THEN [returns |-> TRUE, value |-> 0]
    ELSE [returns |-> FALSE, value |-> 0]

\* the loop test of the merge walk (i, j are 0-based as in the code)
WalkGoesOn(hashes, hashes2, w) == w.i < Len(hashes) /\ w.j < Len(hashes2)

\* the walk that, on a mismatch, advances the first list whichever is smaller
WalkStep_MismatchAdvancesFirst(hashes, hashes2, w) ==
    LET hash1 == hashes[w.i + 1]
        hash2 == hashes2[w.j + 1]
    IN  IF hash1 = hash2 THEN
            [i |-> w.i + 1, j |-> w.j + 1, matchCount |-> w.matchCount + 1]
        ELSE
            [i |-> w.i + 1, j |-> w.j, matchCount |-> w.matchCount]

\* the walk that, on a match, advances the first list only
WalkStep_MatchKeepsSecond(hashes, hashes2, w) ==
    LET hash1 == hashes[w.i + 1]
        hash2 == hashes2[w.j + 1]
    IN  IF hash1 = hash2 THEN
            [i |-> w.i + 1, j |-> w.j, matchCount |-> w.matchCount + 1]
        ELSE IF U32Less(hash1, hash2) THEN
            [i |-> w.i + 1, j |-> w.j, matchCount |-> w.matchCount]
        ELSE
            [i |-> w.i, j |-> w.j + 1, matchCount |-> w.matchCount]

\* one iteration of the merge walk from w = [i, j, matchCount]
WalkStep(hashes, hashes2, w) ==
    LET hash1 == hashes[w.i + 1]
        hash2 == hashes2[w.j + 1]
    IN  IF hash1 = hash2 THEN
            [i |-> w.i + 1, j |-> w.j + 1, matchCount |-> w.matchCount + 1]
        ELSE IF U32Less(hash1, hash2) THEN
            [i |-> w.i + 1, j |-> w.j, matchCount |-> w.matchCount]
        ELSE
            [i |-> w.i, j |-> w.j + 1, matchCount |-> w.matchCount]

\* the merge walk of DiffHash.Similarity from w on: matchCount
RECURSIVE MergeWalk(_, _, _)
MergeWalk(hashes, hashes2, w) ==
    IF ~WalkGoesOn(hashes, hashes2, w) THEN w.matchCount
    ELSE ByValue(LAMBDA next : MergeWalk(hashes, hashes2, next),
                 WalkStep(hashes, hashes2, w))

\* the denominator taken as the length of the first sketch
Denominator_First(hashLen, hashLen2) == hashLen

\* the denominator taken as the sum of the two lengths
Denominator_Sum(hashLen, hashLen2) == hashLen + hashLen2

Denominator(hashLen, hashLen2) == IF hashLen2 > hashLen THEN hashLen2 ELSE hashLen

\* float32(matchCount) / float32(denominator): the quotient rounded to the
\* nearest float32.  The quotient is taken to one bit below the unit, in two
\* steps of long division, and then rounded.
Float32Div(matchCount, denominator) ==
    IF denominator = 0 THEN NaN
    ELSE LET h1 == (FracBits + 1) \div 2
             h2 == (FracBits + 1) - h1
             High(a1) ==
                 LET Low(a2) ==
                         RoundToPrecision((a1 \div denominator) * Pow2(h2)
                                              + (a2 \div denominator),
                                          a2 % denominator # 0) \div 2
                 IN  ByValue(Low, (a1 % denominator) * Pow2(h2))
         IN  ByValue(High, matchCount * Pow2(h1))

\* x + y and x - y on float32 values
Float32Add(x, y) == RoundToPrecision(x + y, FALSE)

Float32Sub(x, y) == RoundToPrecision(x - y, FALSE)

\* the constant 0.6 of TextLine.Similarity, converted to float32
SimilarityFloor == Float32Div(3, 5)

\* DiffHash.Similarity, in units of 1/One
DiffHash_Similarity(hashes, hashes2) ==
    LET hashLen == Len(hashes)
        hashLen2 == Len(hashes2)
        early == EarlyReturn(hashLen, hashLen2)
    IN  IF early.returns THEN early.value
        ELSE ByValue(LAMBDA matchCount :
                         Float32Div(matchCount, Denominator(hashLen, hashLen2)),
                     MergeWalk(hashes, hashes2, [i |-> 0, j |-> 0, matchCount |-> 0]))

(***************************************************************************)
(* TextLine (text-line.go) and ComparableRune (comparable source).         *)
(***************************************************************************)
\* NewTextLine: the text kept as it is, the sketch from DiffHash.Init,
\* which converts the text to runes first
NewTextLine(text) == [Text |-> text, diffHash |-> DiffHash_Init(DecodeString(text))]

\* TextLine.Similarity without its clamp
ClampSimilarity_None(similarityFactor) == similarityFactor

\* the clamp with "<=" in place of "<"
ClampSimilarity_Inclusive(similarityFactor) ==
    IF similarityFactor # NaN /\ similarityFactor <= SimilarityFloor THEN 0
    ELSE similarityFactor

\* "if similarityFactor < 0.6 { similarityFactor = 0.0 }" (false on NaN)
ClampSimilarity(similarityFactor) ==
    IF similarityFactor # NaN /\ similarityFactor < SimilarityFloor THEN 0
    ELSE similarityFactor

TextLine_Similarity(line1, line2) ==
    ClampSimilarity(DiffHash_Similarity(line1.diffHash, line2.diffHash))

\* "1.0 - line1.Similarity(line2)"
TextLine_Compare(line1, line2) == Float32Sub(One, TextLine_Similarity(line1, line2))

\* ComparableRune.Compare with its two results exchanged
ComparableRune_Compare_Inverted(c, d) == IF c = d THEN One ELSE 0

ComparableRune_Compare(c, d) == IF c = d THEN 0 ELSE One

\* the lines of the pool, as TextLine items
Lines == {NewTextLine(x) : x \in LinePool}

\* TextLine.Compare over the pool, computed once
LineCost == [x \in Lines, y \in Lines |-> TextLine_Compare(x, y)]

\* Comparable.Compare, dispatched on the dynamic type of the items
Compare(k, x, y) == IF k = "rune" THEN ComparableRune_Compare(x, y) ELSE LineCost[x, y]

(***************************************************************************)
(* Alignment (alignment.go).                                               *)
(***************************************************************************)
Matching == "Matching"
Different == "Different"
LeftOnly == "LeftOnly"
RightOnly == "RightOnly"

\* the struct literal with its two index fields exchanged
Link_Swapped(linkType, leftIndex, rightIndex) ==
    [linkType |-> linkType, leftIndex |-> rightIndex, rightIndex |-> leftIndex]

Link(linkType, leftIndex, rightIndex) ==
    [linkType |-> linkType, leftIndex |-> leftIndex, rightIndex |-> rightIndex]

\* the links left in the order the backtrace found them
ReverseLinks_Omitted(q) == q

\* the in-place reversal loop at the end of Diff_v1 / Diff_v2
ReverseLinks(q) == [k \in 1..Len(q) |-> q[Len(q) + 1 - k]]

(***************************************************************************)
(* Diff_v2 (diff.go): the pieces of one loop iteration.                    *)
(***************************************************************************)
offset(ii, jj, n) == ii * (n + 1) + jj

\* min_float32_3 without its second test (c is never looked at)
min_float32_3_NoThird(a, b, c) == IF b < a THEN b ELSE a

min_float32_3(a, b, c) ==
    LET min1 == IF b < a THEN b ELSE a
    IN  IF c < min1 THEN c ELSE min1

\* the matrix with the first-column loop left out
BorderMatrix_NoColumn(m, n) ==
    [k \in 0..((m + 1) * (n + 1) - 1) |->
        IF (k \div (n + 1)) = 0 THEN (k % (n + 1)) * One ELSE 0]

\* make([]float32, (m+1)*(n+1)) followed by the two border loops
BorderMatrix(m, n) ==
    [k \in 0..((m + 1) * (n + 1) - 1) |->
        IF (k \div (n + 1)) = 0 THEN (k % (n + 1)) * One
        ELSE IF (k % (n + 1)) = 0 THEN (k \div (n + 1)) * One
        ELSE 0]

\* the fill body with the item cost added to the wrong candidate
FillValue_CostOnUp(mat, ii, jj, n, cost) ==
    min_float32_3(Float32Add(mat[offset(ii, jj, n)], One),
                  Float32Add(mat[offset(ii, jj + 1, n)], cost),
                  Float32Add(mat[offset(ii + 1, jj, n)], One))

\* the fill body without the "+ 1" of the deletion candidate
FillValue_FreeDeletion(mat, ii, jj, n, cost) ==
    min_float32_3(Float32Add(mat[offset(ii, jj, n)], cost),
                  mat[offset(ii, jj + 1, n)],
                  Float32Add(mat[offset(ii + 1, jj, n)], One))

\* the value stored in cell (ii+1, jj+1) by the body of the fill loop
FillValue(mat, ii, jj, n, cost) ==
    min_float32_3(Float32Add(mat[offset(ii, jj, n)], cost),
                  Float32Add(mat[offset(ii, jj + 1, n)], One),
                  Float32Add(mat[offset(ii + 1, jj, n)], One))

\* the deletion candidate without its "+ 1"
CandB_NoCost(mat, ii, jj, n) == mat[offset(ii - 1, jj, n)]

\* the three candidates of the backtrace at cell (ii, jj), ii >= 1, jj >= 1
CandA(mat, ii, jj, n, cost) == Float32Add(mat[offset(ii - 1, jj - 1, n)], cost)
CandB(mat, ii, jj, n) == Float32Add(mat[offset(ii - 1, jj, n)], One)
CandC(mat, ii, jj, n) == Float32Add(mat[offset(ii, jj - 1, n)], One)

\* bIsOK with its second comparison made strict
bIsOK_Strict(a, b, c) == b <= a /\ b < c

\* cIsOK with the operands of its second comparison exchanged
cIsOK_Swapped(a, b, c) == c <= a /\ b <= c

aIsOK(a, b, c) == a <= b /\ a <= c
bIsOK(a, b, c) == b <= a /\ b <= c
cIsOK(a, b, c) == c <= a /\ c <= b

\* the kind of the link of a diagonal step: "if cost == 0.0 { Matching } else { Different }"
DiagonalLinkType(cost) == IF cost = 0 THEN Matching ELSE Different

\* the backtrace step whose LeftOnly branch also leaves the column
BacktraceStep_LeftOnlySkipsColumn(mat, ii, jj, n, cost) ==
    LET sIndex == ii - 1
        tIndex == jj - 1
    IN  IF ii < 1 THEN
            [link |-> Link(RightOnly, -1, tIndex), iNext |-> 0, jNext |-> jj - 1,
             panic |-> FALSE]
        ELSE IF jj < 1 THEN
            [link |-> Link(LeftOnly, sIndex, -1), iNext |-> ii - 1, jNext |-> 0,
             panic |-> FALSE]
        ELSE
            LET a == CandA(mat, ii, jj, n, cost)
                b == CandB(mat, ii, jj, n)
                c == CandC(mat, ii, jj, n)
            IN  IF aIsOK(a, b, c) THEN
                    [link |-> Link(DiagonalLinkType(cost), sIndex, tIndex),
                     iNext |-> ii - 1, jNext |-> jj - 1, panic |-> FALSE]
                ELSE IF bIsOK(a, b, c) THEN
                    [link |-> Link(LeftOnly, sIndex, -1), iNext |-> ii - 1,
                     jNext |-> jj - 1, panic |-> FALSE]
                ELSE IF cIsOK(a, b, c) THEN
                    [link |-> Link(RightOnly, -1, tIndex), iNext |-> ii,
                     jNext |-> jj - 1, panic |-> FALSE]
                ELSE
                    [link |-> Link(RightOnly, -1, -1), iNext |-> ii, jNext |-> jj,
                     panic |-> TRUE]

\* one iteration of the backtrace loop at (ii, jj): the link and the next cell;
\* panic is TRUE when the "not reached" branch is taken
BacktraceStep(mat, ii, jj, n, cost) ==
    LET sIndex == ii - 1
        tIndex == jj - 1
    IN  IF ii < 1 THEN
            [link |-> Link(RightOnly, -1, tIndex), iNext |-> 0, jNext |-> jj - 1,
             panic |-> FALSE]
        ELSE IF jj < 1 THEN
            [link |-> Link(LeftOnly, sIndex, -1), iNext |-> ii - 1, jNext |-> 0,
             panic |-> FALSE]
        ELSE
            LET a == CandA(mat, ii, jj, n, cost)
                b == CandB(mat, ii, jj, n)
                c == CandC(mat, ii, jj, n)
            IN  IF aIsOK(a, b, c) THEN
                    [link |-> Link(DiagonalLinkType(cost), sIndex, tIndex),
                     iNext |-> ii - 1, jNext |-> jj - 1, panic |-> FALSE]
                ELSE IF bIsOK(a, b, c) THEN
                    [link |-> Link(LeftOnly, sIndex, -1), iNext |-> ii - 1,
                     jNext |-> jj, panic |-> FALSE]
                ELSE IF cIsOK(a, b, c) THEN
                    [link |-> Link(RightOnly, -1, tIndex), iNext |-> ii,
                     jNext |-> jj - 1, panic |-> FALSE]
                ELSE
                    [link |-> Link(RightOnly, -1, -1), iNext |-> ii, jNext |-> jj,
                     panic |-> TRUE]

\* the cost of the pair of items that cell (ii, jj) compares (0 on the borders)
CostAt(k, ls, lt, ii, jj) ==
    IF ii >= 1 /\ jj >= 1 THEN Compare(k, ls[ii], lt[jj]) ELSE 0

(***************************************************************************)
(* Diff_v2 (diff.go) as a function: the same loop bodies, run to the end.  *)
(***************************************************************************)
\* the fill loops from cell number cell on (row-major: i = cell / n, j = cell % n)
RECURSIVE Diff_v2_Fill(_, _, _, _, _)
Diff_v2_Fill(mat, cell, k, ls, lt) ==
    LET m == Len(ls)
        n == Len(lt)
        Rest(next) == Diff_v2_Fill(next, cell + 1, k, ls, lt)
    IN  IF cell >= m * n THEN mat
        ELSE LET ii == cell \div n
                 jj == cell % n
                 cost == Compare(k, ls[ii + 1], lt[jj + 1])
             IN  ByValue(Rest, [mat EXCEPT ![offset(ii + 1, jj + 1, n)] =
                                              FillValue(mat, ii, jj, n, cost)])

\* the backtrace loop from (ii, jj) on; acc holds the links found so far
RECURSIVE Diff_v2_Trace(_, _, _, _, _, _, _)
Diff_v2_Trace(mat, ii, jj, acc, k, ls, lt) ==
    LET Rest(step) ==
            IF step.panic THEN [panic |-> TRUE, links |-> acc]
            ELSE ByValue(LAMBDA next : Diff_v2_Trace(mat, step.iNext, step.jNext, next,
                                                     k, ls, lt),
                         Append(acc, step.link))
    IN  IF ii <= 0 /\ jj <= 0 THEN [panic |-> FALSE, links |-> acc]
        ELSE ByValue(Rest,
                     BacktraceStep(mat, ii, jj, Len(lt), CostAt(k, ls, lt, ii, jj)))

Diff_v2(k, ls, lt) ==
    LET m == Len(ls)
        n == Len(lt)
        Traced(mat) ==
            LET Result(trace) == [panic |-> trace.panic,
                                  distance |-> mat[offset(m, n, n)],
                                  alignment |-> ReverseLinks(trace.links)]
            IN  ByValue(Result, Diff_v2_Trace(mat, m, n, <<>>, k, ls, lt))
    IN  ByValue(Traced, Diff_v2_Fill(BorderMatrix(m, n), 0, k, ls, lt))

(***************************************************************************)
(* LevenshteinDistance_v1 .. _v4 (diff.go), on byte strings.               *)
(***************************************************************************)
min_int_3(a, b, c) ==
    LET min1 == IF b < a THEN b ELSE a
    IN  IF c < min1 THEN c ELSE min1

RECURSIVE LevenshteinDistance_v1(_, _)
LevenshteinDistance_v1(sc, td) ==
    IF Len(sc) = 0 THEN Len(td)
    ELSE IF Len(td) = 0 THEN Len(sc)
    ELSE LET s1 == SubSeq(sc, 1, Len(sc) - 1)
             c == sc[Len(sc)]
             t1 == SubSeq(td, 1, Len(td) - 1)
             d == td[Len(td)]
             cost == IF c # d THEN 1 ELSE 0
             Min(v) == min_int_3(v[1], v[2], v[3])
         IN  ByValue(Min, <<LevenshteinDistance_v1(s1, t1) + cost,
                            LevenshteinDistance_v1(s1, td) + 1,
                            LevenshteinDistance_v1(sc, t1) + 1>>)

\* make([]int, size), all zero
ZeroMatrix(size) == [k \in 0..(size - 1) |-> 0]

\* the loop "for j := 0; j < n + 1; j++ { matrix[offset(0, j)] = j }"
FirstRow(mat, n) == [k \in DOMAIN mat |-> IF k <= n THEN k ELSE mat[k]]

\* the loop "for i := 1; i < m + 1; i++ { matrix[offset(i, 0)] = i }"
FirstColumn(mat, m, n) ==
    [k \in DOMAIN mat |->
        IF k >= n + 1 /\ (k % (n + 1)) = 0 THEN k \div (n + 1) ELSE mat[k]]

ByteCost(c, d) == IF c = d THEN 0 ELSE 1

\* the fill loops of _v2 (and of Diff_v1) from cell number cell on
RECURSIVE Fill_v2(_, _, _, _)
Fill_v2(mat, cell, ls, lt) ==
    LET m == Len(ls)
        n == Len(lt)
        Rest(next) == Fill_v2(next, cell + 1, ls, lt)
    IN  IF cell >= m * n THEN mat
        ELSE LET ii == cell \div n
                 jj == cell % n
                 cost == ByteCost(ls[ii + 1], lt[jj + 1])
             IN  ByValue(Rest, [mat EXCEPT ![offset(ii + 1, jj + 1, n)] =
                                   min_int_3(mat[offset(ii, jj, n)] + cost,
                                             mat[offset(ii, jj + 1, n)] + 1,
                                             mat[offset(ii + 1, jj, n)] + 1)])

LevenshteinDistance_v2(ls, lt) ==
    LET m == Len(ls)
        n == Len(lt)
        matrix0 == FirstColumn(FirstRow(ZeroMatrix((m + 1) * (n + 1)), n), m, n)
    IN  Fill_v2(matrix0, 0, ls, lt)[offset(m, n, n)]

\* the loops of _v3 from cell number cell on: the first column is set row by row
RECURSIVE Fill_v3(_, _, _, _)
Fill_v3(mat, cell, ls, lt) ==
    LET m == Len(ls)
        n == Len(lt)
        Rest(next) == Fill_v3(next, cell + 1, ls, lt)
    IN  IF n = 0 THEN
            \* the inner loop never runs: only the first column is written
            IF cell >= m THEN mat
            ELSE ByValue(Rest, [mat EXCEPT ![offset(cell + 1, 0, n)] = cell + 1])
        ELSE IF cell >= m * n THEN mat
        ELSE LET ii == cell \div n
                 jj == cell % n
                 cost == ByteCost(ls[ii + 1], lt[jj + 1])
                 Cell(mat1) ==
                     [mat1 EXCEPT ![offset(ii + 1, jj + 1, n)] =
                         min_int_3(mat1[offset(ii, jj, n)] + cost,
                                   mat1[offset(ii, jj + 1, n)] + 1,
                                   mat1[offset(ii + 1, jj, n)] + 1)]
             IN  ByValue(Rest,
                         ByValue(Cell,
                                 IF jj = 0
                                 THEN [mat EXCEPT ![offset(ii + 1, 0, n)] = ii + 1]
                                 ELSE mat))

LevenshteinDistance_v3(ls, lt) ==
    LET m == Len(ls)
        n == Len(lt)
        matrix0 == FirstRow(ZeroMatrix((m + 1) * (n + 1)), n)
    IN  Fill_v3(matrix0, 0, ls, lt)[offset(m, n, n)]

\* _v4: rowCount rows, addressed by i % rowCount
rowCount == 2

offset_v4(ii, jj, n) == (ii % rowCount) * (n + 1) + jj

RECURSIVE Fill_v4(_, _, _, _)
Fill_v4(mat, cell, ls, lt) ==
    LET m == Len(ls)
        n == Len(lt)
        Rest(next) == Fill_v4(next, cell + 1, ls, lt)
    IN  IF n = 0 THEN
            IF cell >= m THEN mat
            ELSE ByValue(Rest, [mat EXCEPT ![offset_v4(cell + 1, 0, n)] = cell + 1])
        ELSE IF cell >= m * n THEN mat
        ELSE LET ii == cell \div n
                 jj == cell % n
                 cost == ByteCost(ls[ii + 1], lt[jj + 1])
                 Cell(mat1) ==
                     [mat1 EXCEPT ![offset_v4(ii + 1, jj + 1, n)] =
                         min_int_3(mat1[offset_v4(ii, jj, n)] + cost,
                                   mat1[offset_v4(ii, jj + 1, n)] + 1,
                                   mat1[offset_v4(ii + 1, jj, n)] + 1)]
             IN  ByValue(Rest,
                         ByValue(Cell,
                                 IF jj = 0
                                 THEN [mat EXCEPT ![offset_v4(ii + 1, 0, n)] = ii + 1]
                                 ELSE mat))

LevenshteinDistance_v4(ls, lt) ==
    LET m == Len(ls)
        n == Len(lt)
        matrix0 == FirstRow(ZeroMatrix(rowCount * (n + 1)), n)
    IN  Fill_v4(matrix0, 0, ls, lt)[offset_v4(m, n, n)]

(***************************************************************************)
(* Diff_v1, the alignment dump, LevenshteinDistance_v5 and _v6 (diff.go).  *)
(***************************************************************************)
\* one iteration of the backtrace loop of Diff_v1 at (ii, jj), on an int matrix
Diff_v1_BacktraceStep(mat, ii, jj, n, cost) ==
    LET sIndex == ii - 1
        tIndex == jj - 1
    IN  IF ii < 1 THEN
            [link |-> Link(RightOnly, -1, tIndex), iNext |-> 0, jNext |-> jj - 1,
             panic |-> FALSE]
        ELSE IF jj < 1 THEN
            [link |-> Link(LeftOnly, sIndex, -1), iNext |-> ii - 1, jNext |-> 0,
             panic |-> FALSE]
        ELSE
            LET a == mat[offset(ii - 1, jj - 1, n)] + cost
                b == mat[offset(ii - 1, jj, n)] + 1
                c == mat[offset(ii, jj - 1, n)] + 1
            IN  IF aIsOK(a, b, c) THEN
                    [link |-> Link(DiagonalLinkType(cost), sIndex, tIndex),
                     iNext |-> ii - 1, jNext |-> jj - 1, panic |-> FALSE]
                ELSE IF bIsOK(a, b, c) THEN
                    [link |-> Link(LeftOnly, sIndex, -1), iNext |-> ii - 1,
                     jNext |-> jj, panic |-> FALSE]
                ELSE IF cIsOK(a, b, c) THEN
                    [link |-> Link(RightOnly, -1, tIndex), iNext |-> ii,
                     jNext |-> jj - 1, panic |-> FALSE]
                ELSE
                    [link |-> Link(RightOnly, -1, -1), iNext |-> ii, jNext |-> jj,
                     panic |-> TRUE]

RECURSIVE Diff_v1_Trace(_, _, _, _, _, _)
Diff_v1_Trace(mat, ii, jj, acc, ls, lt) ==
    LET Rest(step) ==
            IF step.panic THEN [panic |-> TRUE, links |-> acc]
            ELSE ByValue(LAMBDA next : Diff_v1_Trace(mat, step.iNext, step.jNext, next,
                                                     ls, lt),
                         Append(acc, step.link))
        cost == IF ii >= 1 /\ jj >= 1 THEN ByteCost(ls[ii], lt[jj]) ELSE 0
    IN  IF ii <= 0 /\ jj <= 0 THEN [panic |-> FALSE, links |-> acc]
        ELSE ByValue(Rest, Diff_v1_BacktraceStep(mat, ii, jj, Len(lt), cost))

\* Diff_v1 on two byte strings
Diff_v1(ls, lt) ==
    LET m == Len(ls)
        n == Len(lt)
        matrix0 == FirstColumn(FirstRow(ZeroMatrix((m + 1) * (n + 1)), n), m, n)
        Traced(mat) ==
            LET Result(trace) == [panic |-> trace.panic,
                                  distance |-> mat[offset(m, n, n)],
                                  alignment |-> ReverseLinks(trace.links)]
            IN  ByValue(Result, Diff_v1_Trace(mat, m, n, <<>>, ls, lt))
    IN  ByValue(Traced, Fill_v2(matrix0, 0, ls, lt))

\* the alignment dump reads left[leftIndex] / right[rightIndex] of every link
\* that carries them: TRUE when one of these reads is out of range
DumpPanics(alignment, left, right) ==
    \E k \in 1..Len(alignment) :
        LET link == alignment[k]
        IN  \/ /\ link.linkType \in {Matching, Different, LeftOnly}
               /\ (link.leftIndex < 0 \/ link.leftIndex >= Len(left))
            \/ /\ link.linkType \in {Matching, Different, RightOnly}
               /\ (link.rightIndex < 0 \/ link.rightIndex >= Len(right))

\* what a call gives back: a value, or a run-time panic
Returned(v) == [panic |-> FALSE, value |-> v]
Panicked == [panic |-> TRUE, value |-> 0]

LevenshteinDistance_v5(ls, lt) ==
    LET d == Diff_v1(ls, lt)
    IN  IF d.panic \/ DumpPanics(d.alignment, ComparableString(ls), ComparableString(lt))
        THEN Panicked
        ELSE Returned(d.distance)

LevenshteinDistance_v6(ls, lt) ==
    LET d == Diff_v2("rune", ComparableString(ls), ComparableString(lt))
    IN  IF d.panic THEN Panicked ELSE Returned(d.distance \div One)

(***************************************************************************)
(* Diff_v2 as a state machine.                                             *)
(***************************************************************************)
Inputs(k) ==
    IF k = "rune" THEN SeqsUpTo(Alphabet, MaxLen) ELSE SeqsUpTo(Lines, MaxLines)

Init ==
    /\ kind \in {"rune", "line"}
    /\ s \in Inputs(kind)
    /\ t \in Inputs(kind)
    /\ pc = "start"
    /\ matrix = <<>>
    /\ i = 0
    /\ j = 0
    /\ links = <<>>
    /\ distance = -1
    /\ result = <<>>

\* allocation of the alignment and the matrix, and the two border loops
InitMatrix ==
    /\ pc = "start"
    /\ matrix' = BorderMatrix(Len(s), Len(t))
    /\ IF Len(s) > 0 /\ Len(t) > 0
       THEN pc' = "fill" /\ i' = 0 /\ j' = 0
       ELSE pc' = "trace" /\ i' = Len(s) /\ j' = Len(t)
    /\ UNCHANGED <<kind, s, t, links, distance, result>>

\* one iteration of the inner fill loop: cell (i+1, j+1)
FillCell ==
    /\ pc = "fill"
    /\ LET n == Len(t)
           cost == Compare(kind, s[i + 1], t[j + 1])
       IN  matrix' =
               [matrix EXCEPT ![offset(i + 1, j + 1, n)] = FillValue(matrix, i, j, n, cost)]
    /\ IF j + 1 < Len(t) THEN pc' = "fill" /\ i' = i /\ j' = j + 1
       ELSE IF i + 1 < Len(s) THEN pc' = "fill" /\ i' = i + 1 /\ j' = 0
       ELSE pc' = "trace" /\ i' = Len(s) /\ j' = Len(t)
    /\ UNCHANGED <<kind, s, t, links, distance, result>>

\* one iteration of the backtrace loop
Backtrace ==
    /\ pc = "trace"
    /\ ~(i <= 0 /\ j <= 0)
    /\ LET step == BacktraceStep(matrix, i, j, Len(t), CostAt(kind, s, t, i, j))
       IN  IF step.panic
           THEN pc' = "panic" /\ UNCHANGED <<i, j, links>>
           ELSE /\ links' = Append(links, step.link)
                /\ i' = step.iNext
                /\ j' = step.jNext
                /\ pc' = "trace"
    /\ UNCHANGED <<kind, s, t, matrix, distance, result>>

\* the reversal of the links and the return
Return ==
    /\ pc = "trace"
    /\ i = 0
    /\ j = 0
    /\ links' = ReverseLinks(links)
    /\ distance' = matrix[offset(Len(s), Len(t), Len(t))]
    /\ pc' = "done"
    /\ UNCHANGED <<kind, s, t, matrix, i, j, result>>

Next == InitMatrix \/ FillCell \/ Backtrace \/ Return

Spec == Init /\ [][Next]_vars

\* Diff_v2 is sequential code: a step that can be taken is taken
SpecFair == Spec /\ WF_vars(Next)

(***************************************************************************)
(* The LevenshteinDistance functions applied to pairs of strings           *)
(* (TestLevenshteinDistance runs the six of them on each pair).            *)
(***************************************************************************)
Strings == {EncodeString(x) : x \in SeqsUpTo(StrAlphabet, MaxStrLen)}

InitLD ==
    /\ kind = "string"
    /\ s \in Strings
    /\ t \in Strings
    /\ pc = "ld_start"
    /\ matrix = <<>>
    /\ i = 0
    /\ j = 0
    /\ links = <<>>
    /\ distance = -1
    /\ result = <<>>

RunLD ==
    /\ pc = "ld_start"
    /\ result' = [v1 |-> Returned(LevenshteinDistance_v1(s, t)),
                  v2 |-> Returned(LevenshteinDistance_v2(s, t)),
                  v3 |-> Returned(LevenshteinDistance_v3(s, t)),
                  v4 |-> Returned(LevenshteinDistance_v4(s, t)),
                  v5 |-> LevenshteinDistance_v5(s, t),
                  v6 |-> LevenshteinDistance_v6(s, t)]
    /\ pc' = "ld_done"
    /\ UNCHANGED <<kind, s, t, matrix, i, j, links, distance>>

NextLD == RunLD

SpecLD == InitLD /\ [][NextLD]_vars

(***************************************************************************)
(* Two text lines made and compared (the body of TestTextLine):            *)
(* NewTextLine twice, then TextLine.Similarity, whose call of              *)
(* DiffHash.Similarity runs one step per iteration of its merge loop.      *)
(***************************************************************************)
HashStrings == {EncodeString(x) : x \in HashRunes}

InitHash ==
    /\ kind = "hash"
    /\ s \in HashStrings
    /\ t \in HashStrings
    /\ pc = "hash_start"
    /\ matrix = <<>>
    /\ i = 0
    /\ j = 0
    /\ links = <<>>
    /\ distance = -1
    /\ result = <<>>

\* NewTextLine(s), NewTextLine(t): DiffHash.Init on each text
HashInit ==
    /\ pc = "hash_start"
    /\ result' = [hashes |-> DiffHash_Init(DecodeString(s)),
                  hashes2 |-> DiffHash_Init(DecodeString(t)),
                  matchCount |-> 0,
                  similarityFactor |-> 0,
                  lineSimilarity |-> 0]
    /\ pc' = "similarity"
    /\ UNCHANGED <<kind, s, t, matrix, i, j, links, distance>>

\* the head of DiffHash.Similarity: the tests on empty sketches
SimilarityEntry ==
    /\ pc = "similarity"
    /\ LET early == EarlyReturn(Len(result.hashes), Len(result.hashes2))
       IN  IF early.returns
           THEN /\ result' = [result EXCEPT !.similarityFactor = early.value]
                /\ pc' = "clamp"
           ELSE /\ result' = [result EXCEPT !.matchCount = 0]
                /\ pc' = "walk"
    /\ i' = 0
    /\ j' = 0
    /\ UNCHANGED <<kind, s, t, matrix, links, distance>>

\* one iteration of the merge loop
WalkIteration ==
    /\ pc = "walk"
    /\ WalkGoesOn(result.hashes, result.hashes2, [i |-> i, j |-> j])
    /\ LET w == WalkStep(result.hashes, result.hashes2,
                         [i |-> i, j |-> j, matchCount |-> result.matchCount])
       IN  /\ i' = w.i
           /\ j' = w.j
           /\ result' = [result EXCEPT !.matchCount = w.matchCount]
    /\ UNCHANGED <<kind, s, t, pc, matrix, links, distance>>

\* the end of the loop: the denominator and the division
Divide ==
    /\ pc = "walk"
    /\ ~WalkGoesOn(result.hashes, result.hashes2, [i |-> i, j |-> j])
    /\ result' = [result EXCEPT !.similarityFactor =
                      Float32Div(result.matchCount,
                                 Denominator(Len(result.hashes), Len(result.hashes2)))]
    /\ pc' = "clamp"
    /\ UNCHANGED <<kind, s, t, matrix, i, j, links, distance>>

\* the rest of TextLine.Similarity: the clamp below 0.6
Clamp ==
    /\ pc = "clamp"
    /\ result' = [result EXCEPT !.lineSimilarity = ClampSimilarity(result.similarityFactor)]
    /\ pc' = "hash_done"
    /\ UNCHANGED <<kind, s, t, matrix, i, j, links, distance>>

NextHash == HashInit \/ SimilarityEntry \/ WalkIteration \/ Divide \/ Clamp

SpecHash == InitHash /\ [][NextHash]_vars

(***************************************************************************)
(* The realigner, Alignment.RealignUsingThreshold (called by               *)
(* GenerateHtmlDiffPage): one step per link of the scan, then the final    *)
(* flush of the pending buffer.                                            *)
(***************************************************************************)
\* the lines of the realigned sequences: "abc" and "abcd", at cost 1.0 - 0.6 apart
RealignLines == {NewTextLine(<<97, 98, 99>>), NewTextLine(<<97, 98, 99, 100>>)}

\* the thresholds: 0.0, 0.4 (the one GenerateHtmlDiffPage passes) and 1.0
Thresholds == {0, Float32Div(2, 5), One}

\* the alignment whose links have the kinds of the sequence kinds, in order: the
\* present left indices are 0, 1, ... and so are the present right ones
RECURSIVE MakeAlignment(_, _, _)
MakeAlignment(kinds, leftIndex, rightIndex) ==
    IF kinds = <<>> THEN <<>>
    ELSE LET linkType == Head(kinds)
         IN  IF linkType = LeftOnly THEN
                 <<Link(LeftOnly, leftIndex, -1)>>
                     \o MakeAlignment(Tail(kinds), leftIndex + 1, rightIndex)
             ELSE IF linkType = RightOnly THEN
                 <<Link(RightOnly, -1, rightIndex)>>
                     \o MakeAlignment(Tail(kinds), leftIndex, rightIndex + 1)
             ELSE
                 <<Link(linkType, leftIndex, rightIndex)>>
                     \o MakeAlignment(Tail(kinds), leftIndex + 1, rightIndex + 1)

\* the number of links of q that carry a left / a right index
LeftLength(q) == Cardinality({k \in 1..Len(q) : q[k].leftIndex # -1})
RightLength(q) == Cardinality({k \in 1..Len(q) : q[k].rightIndex # -1})

\* the cost of the two items a link pairs
LinkCost(link, left, right) ==
    Compare("line", left[link.leftIndex + 1], right[link.rightIndex + 1])

\* the test with ">=" in place of ">"
IsConverted_Inclusive(link, left, right, threshold) ==
    /\ link.linkType = Different
    /\ LinkCost(link, left, right) >= threshold

\* a Different link whose paired items' cost strictly exceeds the threshold
IsConverted(link, left, right, threshold) ==
    /\ link.linkType = Different
    /\ LinkCost(link, left, right) > threshold

\* the flush that clears the buffer without writing it out
Flush_Dropped(st) == [output |-> st.output, pending |-> <<>>]

\* append the buffered RightOnly links to the output, then clear the buffer
Flush(st) == [output |-> st.output \o st.pending, pending |-> <<>>]

\* the conversion that buffers the link itself instead of a RightOnly link
Convert_BuffersDifferent(link, st) ==
    [output |-> Append(st.output, Link(LeftOnly, link.leftIndex, -1)),
     pending |-> Append(st.pending, link)]

\* the conversion that writes the RightOnly link straight to the output
Convert_Unbuffered(link, st) ==
    [output |-> st.output \o <<Link(LeftOnly, link.leftIndex, -1),
                               Link(RightOnly, -1, link.rightIndex)>>,
     pending |-> st.pending]

\* a converted link: LeftOnly to the output, RightOnly to the pending buffer
Convert(link, st) ==
    [output |-> Append(st.output, Link(LeftOnly, link.leftIndex, -1)),
     pending |-> Append(st.pending, Link(RightOnly, -1, link.rightIndex))]

\* any other link: flush, then the link unchanged
Keep(link, st) ==
    LET flushed == Flush(st)
    IN  [output |-> Append(flushed.output, link), pending |-> flushed.pending]

\* the scan's treatment of one link; st = [output, pending]
RealignStep(link, left, right, threshold, st) ==
    IF IsConverted(link, left, right, threshold) THEN Convert(link, st)
    ELSE Keep(link, st)

\* the scan of the realigner from link number k (0-based) on
RECURSIVE RealignLoop(_, _, _, _, _, _)
RealignLoop(alignment, left, right, threshold, k, st) ==
    IF k >= Len(alignment) THEN st
    ELSE ByValue(LAMBDA next : RealignLoop(alignment, left, right, threshold, k + 1, next),
                 RealignStep(alignment[k + 1], left, right, threshold, st))

\* realign(alignment, left, right, threshold): the scan, then the final flush
RealignUsingThreshold(alignment, left, right, threshold) ==
    Flush(RealignLoop(alignment, left, right, threshold, 0,
                      [output |-> <<>>, pending |-> <<>>])).output

InitRealign ==
    /\ kind = "realign"
    /\ \E kinds \in SeqsUpTo({Matching, Different, LeftOnly, RightOnly}, MaxLinks) :
           links = MakeAlignment(kinds, 0, 0)
    /\ s \in [1..LeftLength(links) -> RealignLines]
    /\ t \in [1..RightLength(links) -> RealignLines]
    /\ \E threshold \in Thresholds :
           result = [output |-> <<>>, pending |-> <<>>, threshold |-> threshold]
    /\ pc = "realign"
    /\ matrix = <<>>
    /\ i = 0
    /\ j = 0
    /\ distance = -1

\* the scan takes the next link of the alignment
RealignScan ==
    /\ pc = "realign"
    /\ i < Len(links)
    /\ LET st == RealignStep(links[i + 1], s, t, result.threshold,
                             [output |-> result.output, pending |-> result.pending])
       IN  result' = [result EXCEPT !.output = st.output, !.pending = st.pending]
    /\ i' = i + 1
    /\ UNCHANGED <<kind, s, t, pc, matrix, j, links, distance>>

\* after the scan: the remaining pending buffer is flushed
RealignFlush ==
    /\ pc = "realign"
    /\ i >= Len(links)
    /\ LET st == Flush([output |-> result.output, pending |-> result.pending])
       IN  result' = [result EXCEPT !.output = st.output, !.pending = st.pending]
    /\ pc' = "realign_done"
    /\ UNCHANGED <<kind, s, t, matrix, i, j, links, distance>>

NextRealign == RealignScan \/ RealignFlush

SpecRealign == InitRealign /\ [][NextRealign]_vars

(***************************************************************************)
(* TextLine.Stringify (text-line.go): the truncation, then one step per    *)
(* iteration of the loop that writes the dots.                             *)
(***************************************************************************)
\* the texts: strings of up to MaxTextLen characters, 'e acute' taking two bytes
Texts == {EncodeString(x) : x \in SeqsUpTo(StrAlphabet, MaxTextLen)}

\* the rune '.'
Dot == 46

\* "if len(runes) > maxWidth { runes = runes[:maxWidth] }"
Truncate(runes, maxWidth) ==
    IF Len(runes) > maxWidth THEN SubSeq(runes, 1, maxWidth) ELSE runes

\* the body of the dot loop at index k (0-based): "if i > 0 { runes[i] = '.' }"
DotAt(runes, k) == IF k > 0 THEN [runes EXCEPT ![k + 1] = Dot] ELSE runes

\* the dot loop from index k on
RECURSIVE DotLoop(_, _)
DotLoop(runes, k) ==
    IF k < Len(runes) THEN ByValue(LAMBDA next : DotLoop(next, k + 1), DotAt(runes, k))
    ELSE runes

TextLine_Stringify(line, maxWidth) ==
    EncodeString(DotLoop(Truncate(DecodeString(line.Text), maxWidth), maxWidth - 3))

InitStringify ==
    /\ kind = "stringify"
    /\ s \in Texts
    /\ t = <<>>
    /\ i \in 0..MaxWidth
    /\ pc = "stringify_start"
    /\ matrix = <<>>
    /\ j = 0
    /\ links = <<>>
    /\ distance = -1
    /\ result = <<>>

\* the conversion to runes, the truncation and the start of the loop (i holds
\* maxWidth, j the loop index)
StringifyEntry ==
    /\ pc = "stringify_start"
    /\ result' = [runes |-> Truncate(DecodeString(s), i), text |-> <<>>]
    /\ j' = i - 3
    /\ pc' = "dots"
    /\ UNCHANGED <<kind, s, t, matrix, i, links, distance>>

\* one iteration of the dot loop
DotIteration ==
    /\ pc = "dots"
    /\ j < Len(result.runes)
    /\ result' = [result EXCEPT !.runes = DotAt(result.runes, j)]
    /\ j' = j + 1
    /\ UNCHANGED <<kind, s, t, pc, matrix, i, links, distance>>

\* "return string(runes)"
StringifyReturn ==
    /\ pc = "dots"
    /\ j >= Len(result.runes)
    /\ result' = [result EXCEPT !.text = EncodeString(result.runes)]
    /\ pc' = "stringify_done"
    /\ UNCHANGED <<kind, s, t, matrix, i, j, links, distance>>

NextStringify == StringifyEntry \/ DotIteration \/ StringifyReturn

SpecStringify == InitStringify /\ [][NextStringify]_vars

(***************************************************************************)
(* ParseWords (package etc): the quoted-string parsers and                 *)
(* parseTopLevelWord as functions, the loop of ParseWords one step per     *)
(* iteration.                                                              *)
(***************************************************************************)
\* the runes ' ', '\t', '\'' and '"'
Space == 32
Tab == 9
SingleQuote == 39
DoubleQuote == 34

\* the characters of the parsed texts: 'a', space, tab and the two quotes
WordAlphabet == {97, Space, Tab, SingleQuote, DoubleQuote}

\* the examples of the comment of ParseWords, which TestParseWords runs first
DocExamples ==
    <<[input |-> <<97, 98, 99>>,
       words |-> <<<<97, 98, 99>>>>],
      [input |-> <<32, 97, 98, 99, 32>>,
       words |-> <<<<97, 98, 99>>>>],
      [input |-> <<97, 98, 99, 32, 49, 50, 51>>,
       words |-> <<<<97, 98, 99>>, <<49, 50, 51>>>>],
      [input |-> <<97, 98, 99, 32, 39, 49, 32, 50, 39>>,
       words |-> <<<<97, 98, 99>>, <<49, 32, 50>>>>],
      [input |-> <<97, 98, 99, 32, 34, 49, 32, 50, 34>>,
       words |-> <<<<97, 98, 99>>, <<49, 32, 50>>>>],
      [input |-> <<97, 98, 99, 32, 39, 49, 32, 50, 39, 34, 49, 32, 50, 34>>,
       words |-> <<<<97, 98, 99>>, <<49, 32, 50, 49, 32, 50>>>>],
      [input |-> <<97, 98, 99, 32, 34, 39, 49, 50, 51, 39, 34>>,
       words |-> <<<<97, 98, 99>>, <<39, 49, 50, 51, 39>>>>],
      [input |-> <<97, 98, 99, 32, 39, 34, 49, 50, 51, 34, 39>>,
       words |-> <<<<97, 98, 99>>, <<34, 49, 50, 51, 34>>>>]>>

\* runes[lo:hi] (0-based, hi excluded), and whether Go accepts the bounds
Slice(runes, lo, hi) == SubSeq(runes, lo + 1, hi)
SliceInRange(runes, lo, hi) == 0 <= lo /\ lo <= hi /\ hi <= Len(runes)

RECURSIVE parseDoubleQuotedString(_, _)
RECURSIVE parseSingleQuotedString(_, _)

\* the loop of parseDoubleQuotedString from index on
RECURSIVE DoubleQuotedLoop(_, _, _)
DoubleQuotedLoop(runes, start, index) ==
    IF index >= Len(runes) THEN [next |-> start, matched |-> FALSE]
    ELSE IF runes[index + 1] = DoubleQuote THEN [next |-> index + 1, matched |-> TRUE]
    ELSE ByValue(LAMBDA inner :
                     IF inner.matched THEN DoubleQuotedLoop(runes, start, inner.next)
                     ELSE DoubleQuotedLoop(runes, start, index + 1),
                 parseSingleQuotedString(runes, index))

parseDoubleQuotedString(runes, start) ==
    IF start < Len(runes) /\ runes[start + 1] # DoubleQuote
    THEN [next |-> start, matched |-> FALSE]
    ELSE DoubleQuotedLoop(runes, start, start + 1)

\* the loop of parseSingleQuotedString from index on
RECURSIVE SingleQuotedLoop(_, _, _)
SingleQuotedLoop(runes, start, index) ==
    IF index >= Len(runes) THEN [next |-> start, matched |-> FALSE]
    ELSE IF runes[index + 1] = SingleQuote THEN [next |-> index + 1, matched |-> TRUE]
    ELSE ByValue(LAMBDA inner :
                     IF inner.matched THEN SingleQuotedLoop(runes, start, inner.next)
                     ELSE SingleQuotedLoop(runes, start, index + 1),
                 parseDoubleQuotedString(runes, index))

parseSingleQuotedString(runes, start) ==
    IF start < Len(runes) /\ runes[start + 1] # SingleQuote
    THEN [next |-> start, matched |-> FALSE]
    ELSE SingleQuotedLoop(runes, start, start + 1)

\* the quoted part appended with its two quotes
QuotedPart_WithQuotes(runes, index, next) == Slice(runes, index, next)

\* what parseTopLevelWord appends for a quoted part: runes[index + 1:next - 1]
QuotedPart(runes, index, next) == Slice(runes, index + 1, next - 1)

\* "char != ' ' && char != '\t'" in parseTopLevelWord
IsWordChar(char) == char # Space /\ char # Tab

\* the test of ParseWords with the tab left out
IsSkipped_SpaceOnly(char) == char = Space

\* "char == ' ' || char == '\t'" in ParseWords
IsSkipped(char) == char \in {Space, Tab}

\* the loop of parseTopLevelWord from index on; panic is TRUE when the slice of
\* a quoted part is out of range
RECURSIVE TopLevelWordLoop(_, _, _, _)
TopLevelWordLoop(runes, index, accumulator, matchedSomething) ==
    LET Done == [word |-> accumulator, next |-> index, matched |-> matchedSomething,
                 panic |-> FALSE]
        Quoted(part) ==
            IF ~SliceInRange(runes, index + 1, part.next - 1)
            THEN [word |-> accumulator, next |-> index, matched |-> FALSE, panic |-> TRUE]
            ELSE ByValue(LAMBDA acc : TopLevelWordLoop(runes, part.next, acc, TRUE),
                         accumulator \o QuotedPart(runes, index, part.next))
        Single(part) ==
            IF part.matched THEN Quoted(part)
            ELSE IF IsWordChar(runes[index + 1]) THEN
                ByValue(LAMBDA acc : TopLevelWordLoop(runes, index + 1, acc, TRUE),
                        Append(accumulator, runes[index + 1]))
            ELSE Done
        Double(part) ==
            IF part.matched THEN Quoted(part)
            ELSE ByValue(Single, parseSingleQuotedString(runes, index))
    IN  IF index >= Len(runes) THEN Done
        ELSE ByValue(Double, parseDoubleQuotedString(runes, index))

parseTopLevelWord(runes, start) == TopLevelWordLoop(runes, start, <<>>, FALSE)

\* one iteration of the loop of ParseWords at index: the words and the index
\* after it; panic is TRUE for panic("not reached") and for a run-time panic
ParseWordsStep(runes, words, index) ==
    LET Branch(top) ==
            IF top.panic THEN [words |-> words, index |-> index, panic |-> TRUE]
            ELSE IF top.matched THEN
                [words |-> Append(words, EncodeString(top.word)), index |-> top.next,
                 panic |-> FALSE]
            ELSE IF IsSkipped(runes[index + 1]) THEN
                [words |-> words, index |-> index + 1, panic |-> FALSE]
            ELSE [words |-> words, index |-> index, panic |-> TRUE]
    IN  ByValue(Branch, parseTopLevelWord(runes, index))

\* the loop of ParseWords from index on
RECURSIVE ParseWordsLoop(_, _, _)
ParseWordsLoop(runes, words, index) ==
    IF index >= Len(runes) THEN [panic |-> FALSE, words |-> words]
    ELSE ByValue(LAMBDA step :
                     IF step.panic THEN [panic |-> TRUE, words |-> step.words]
                     ELSE ParseWordsLoop(runes, step.words, step.index),
                 ParseWordsStep(runes, words, index))

ParseWords(text) == ParseWordsLoop(DecodeString(text), <<>>, 0)

\* the texts given to ParseWords
WordTexts ==
    {EncodeString(x) : x \in SeqsUpTo(WordAlphabet, MaxWordsLen)}
        \cup {EncodeString(DocExamples[k].input) : k \in DOMAIN DocExamples}

InitWords ==
    /\ kind = "words"
    /\ s \in WordTexts
    /\ t = <<>>
    /\ pc = "words_start"
    /\ matrix = <<>>
    /\ i = 0
    /\ j = 0
    /\ links = <<>>
    /\ distance = -1
    /\ result = <<>>

\* "var words []string; runes := []rune(text)", index := 0 (i holds index)
ParseWordsEntry ==
    /\ pc = "words_start"
    /\ result' = [runes |-> DecodeString(s), words |-> <<>>]
    /\ i' = 0
    /\ pc' = "words_loop"
    /\ UNCHANGED <<kind, s, t, matrix, j, links, distance>>

\* one iteration of the loop
ParseWordsIteration ==
    /\ pc = "words_loop"
    /\ i < Len(result.runes)
    /\ LET step == ParseWordsStep(result.runes, result.words, i)
       IN  IF step.panic
           THEN pc' = "words_panic" /\ UNCHANGED <<i, result>>
           ELSE /\ result' = [result EXCEPT !.words = step.words]
                /\ i' = step.index
                /\ pc' = "words_loop"
    /\ UNCHANGED <<kind, s, t, matrix, j, links, distance>>

\* "return words"
ParseWordsReturn ==
    /\ pc = "words_loop"
    /\ i >= Len(result.runes)
    /\ pc' = "words_done"
    /\ UNCHANGED <<kind, s, t, matrix, i, j, links, distance, result>>

NextWords == ParseWordsEntry \/ ParseWordsIteration \/ ParseWordsReturn

SpecWords == InitWords /\ [][NextWords]_vars

\* the loop is sequential code: a step that can be taken is taken
SpecWordsFair == SpecWords /\ WF_vars(NextWords)

(***************************************************************************)
(* The alternating runs of generateLineHtml (package output):              *)
(* getLeftLinks / getRightLinks, findRunPositions one step per link, then  *)
(* constructEvenOddSpans on each side.                                     *)
(***************************************************************************)
\* getLeftLinks with its test left out
getLeftLinks_All(alignment) == alignment

getLeftLinks(alignment) == SelectSeq(alignment, LAMBDA link : link.leftIndex >= 0)

getRightLinks(alignment) == SelectSeq(alignment, LAMBDA link : link.rightIndex >= 0)

\* the body of the loop of findRunPositions for the link at index (0-based);
\* st = [runPositions, prevLinkIsType]
FindRunStep(st, link, index, linkType) ==
    LET currLinkIsType == link.linkType = linkType
    IN  [runPositions |-> IF currLinkIsType # st.prevLinkIsType
                          THEN Append(st.runPositions, index)
                          ELSE st.runPositions,
         prevLinkIsType |-> currLinkIsType]

\* the loop of findRunPositions from index on
RECURSIVE FindRunLoop(_, _, _, _)
FindRunLoop(st, run, index, linkType) ==
    IF index >= Len(run) THEN st
    ELSE ByValue(LAMBDA next : FindRunLoop(next, run, index + 1, linkType),
                 FindRunStep(st, run[index + 1], index, linkType))

\* the closure findRunPositions of findAlternatingRunPositions
findRunPositions(run, linkType) ==
    Append(FindRunLoop([runPositions |-> <<0>>, prevLinkIsType |-> TRUE],
                       run, 0, linkType).runPositions,
           Len(run))

findAlternatingRunPositions(alignment, linkType) ==
    <<findRunPositions(getLeftLinks(alignment), linkType),
      findRunPositions(getRightLinks(alignment), linkType)>>

\* the loop of constructEvenOddSpans from run k (0-based) on: one span per run,
\* with the runes of the run (the text before html.EscapeString) and whether
\* the odd style applies; panic is TRUE when a slice is out of range
RECURSIVE EvenOddSpansLoop(_, _, _, _)
EvenOddSpansLoop(runes, runPositions, k, spans) ==
    IF k >= Len(runPositions) - 1 THEN [panic |-> FALSE, spans |-> spans]
    ELSE LET runIsEven == (k % 2) = 0
             runStartIndex == runPositions[k + 1]
             runEndIndex == runPositions[k + 2]
         IN  IF ~SliceInRange(runes, runStartIndex, runEndIndex)
             THEN [panic |-> TRUE, spans |-> spans]
             ELSE ByValue(LAMBDA next : EvenOddSpansLoop(runes, runPositions, k + 1, next),
                          Append(spans, [spanText |-> Slice(runes, runStartIndex, runEndIndex),
                                         runIsOdd |-> ~runIsEven]))

constructEvenOddSpans(runes, runPositions) == EvenOddSpansLoop(runes, runPositions, 0, <<>>)

\* the kinds a link can have
LinkTypes == {Matching, Different, LeftOnly, RightOnly}

\* left and right texts whose characters are all different: "abc...", "ABC..."
LeftRunes(m) == [k \in 1..m |-> 96 + k]
RightRunes(n) == [k \in 1..n |-> 64 + k]

InitRuns ==
    /\ kind = "runs"
    /\ \E kinds \in SeqsUpTo(LinkTypes, MaxLinks) : links = MakeAlignment(kinds, 0, 0)
    /\ s = LeftRunes(LeftLength(links))
    /\ t = RightRunes(RightLength(links))
    /\ \E linkType \in LinkTypes : result = [linkType |-> linkType]
    /\ pc = "runs_start"
    /\ matrix = <<>>
    /\ i = 0
    /\ j = 0
    /\ distance = -1

\* "leftLinks := getLeftLinks(alignment); rightLinks := getRightLinks(alignment)"
\* and the entry of findRunPositions(leftLinks)
SplitLinks ==
    /\ pc = "runs_start"
    /\ result' = [linkType |-> result.linkType,
                  leftLinks |-> getLeftLinks(links),
                  rightLinks |-> getRightLinks(links),
                  run |-> getLeftLinks(links),
                  runPositions |-> <<0>>,
                  prevLinkIsType |-> TRUE,
                  leftRunPositions |-> <<>>,
                  rightRunPositions |-> <<>>,
                  leftSpans |-> <<>>,
                  rightSpans |-> <<>>]
    /\ i' = 0
    /\ pc' = "left_runs"
    /\ UNCHANGED <<kind, s, t, matrix, j, links, distance>>

\* one iteration of the loop of findRunPositions (i holds index)
FindRunIteration ==
    /\ pc \in {"left_runs", "right_runs"}
    /\ i < Len(result.run)
    /\ LET st == FindRunStep([runPositions |-> result.runPositions,
                              prevLinkIsType |-> result.prevLinkIsType],
                             result.run[i + 1], i, result.linkType)
       IN  result' = [result EXCEPT !.runPositions = st.runPositions,
                                    !.prevLinkIsType = st.prevLinkIsType]
    /\ i' = i + 1
    /\ UNCHANGED <<kind, s, t, pc, matrix, j, links, distance>>

\* the end of findRunPositions(leftLinks), and the entry of
\* findRunPositions(rightLinks)
LeftRunsReturn ==
    /\ pc = "left_runs"
    /\ i >= Len(result.run)
    /\ result' = [result EXCEPT !.leftRunPositions =
                                    Append(result.runPositions, Len(result.run)),
                                !.run = result.rightLinks,
                                !.runPositions = <<0>>,
                                !.prevLinkIsType = TRUE]
    /\ i' = 0
    /\ pc' = "right_runs"
    /\ UNCHANGED <<kind, s, t, matrix, j, links, distance>>

\* the end of findRunPositions(rightLinks)
RightRunsReturn ==
    /\ pc = "right_runs"
    /\ i >= Len(result.run)
    /\ result' = [result EXCEPT !.rightRunPositions =
                                    Append(result.runPositions, Len(result.run))]
    /\ pc' = "spans"
    /\ UNCHANGED <<kind, s, t, matrix, i, j, links, distance>>

\* the two calls of constructEvenOddSpans in generateLineHtml
ConstructSpans ==
    /\ pc = "spans"
    /\ LET left == constructEvenOddSpans(s, result.leftRunPositions)
           right == constructEvenOddSpans(t, result.rightRunPositions)
       IN  IF left.panic
           THEN pc' = "runs_panic" /\ UNCHANGED result
           ELSE IF right.panic
           THEN pc' = "runs_panic" /\ UNCHANGED result
           ELSE /\ result' = [result EXCEPT !.leftSpans = left.spans,
                                            !.rightSpans = right.spans]
                /\ pc' = "runs_done"
    /\ UNCHANGED <<kind, s, t, matrix, i, j, links, distance>>

NextRuns ==
    SplitLinks \/ FindRunIteration \/ LeftRunsReturn \/ RightRunsReturn \/ ConstructSpans

SpecRuns == InitRuns /\ [][NextRuns]_vars

(***************************************************************************)
(* The realigner as main and GenerateHtmlDiffPage call it: on the          *)
(* alignment Diff_v2 returns for two sequences of text lines, with the     *)
(* threshold 0.4.                                                          *)
(***************************************************************************)
\* the threshold GenerateHtmlDiffPage passes: 0.4
HtmlThreshold == Float32Div(2, 5)

InitHtmlDiff ==
    /\ kind = "realign"
    /\ s \in SeqsUpTo(Lines, MaxLines)
    /\ t \in SeqsUpTo(Lines, MaxLines)
    /\ links = Diff_v2("line", s, t).alignment
    /\ result = [output |-> <<>>, pending |-> <<>>, threshold |-> HtmlThreshold]
    /\ pc = "realign"
    /\ matrix = <<>>
    /\ i = 0
    /\ j = 0
    /\ distance = -1

SpecHtmlDiff == InitHtmlDiff /\ [][NextRealign]_vars

(***************************************************************************)
(* Properties.                                                             *)
(***************************************************************************)
\* the present (non -1) left / right indices of a link sequence, in link order
LeftIndices(q) ==
    LET p == SelectSeq(q, LAMBDA l : l.leftIndex # -1)
    IN  [k \in 1..Len(p) |-> p[k].leftIndex]

RightIndices(q) ==
    LET p == SelectSeq(q, LAMBDA l : l.rightIndex # -1)
    IN  [k \in 1..Len(p) |-> p[k].rightIndex]

\* <<0, 1, ..., n-1>>
ZeroTo(n) == [k \in 1..n |-> k - 1]

\* the fill loops are over and the backtrace has not begun
FillDone == pc = "trace" /\ links = <<>>

\* C1: on rune sequences (binary cost), once Diff_v2 has filled its matrix every
\* cell M[i][j] is the Levenshtein distance of the prefixes s[:i] and t[:j] as
\* the recursive LevenshteinDistance_v1 defines it, and the returned distance is
\* that of s and t.
C1_MatrixIsLevenshtein ==
    /\ (kind = "rune" /\ FillDone) =>
           \A ii \in 0..Len(s), jj \in 0..Len(t) :
               matrix[offset(ii, jj, Len(t))] =
                   One * LevenshteinDistance_v1(EncodeString(SubSeq(s, 1, ii)),
                                                EncodeString(SubSeq(t, 1, jj)))
    /\ (kind = "rune" /\ pc = "done") =>
           distance = One * LevenshteinDistance_v1(EncodeString(s), EncodeString(t))

\* a filled matrix of two rune sequences of different lengths at distance 2
C1_Witness ==
    /\ kind = "rune"
    /\ FillDone
    /\ Len(s) = 3
    /\ Len(t) = 2
    /\ matrix[offset(3, 2, 2)] = 2 * One
    /\ matrix[offset(2, 2, 2)] = One

\* C2: in the alignment Diff_v2 returns, the present left indices in link order
\* are exactly 0, 1, ..., m-1 and the present right indices exactly 0, ..., n-1.
C2_IndicesCoverInOrder ==
    pc = "done" =>
        /\ LeftIndices(links) = ZeroTo(Len(s))
        /\ RightIndices(links) = ZeroTo(Len(t))

\* a returned alignment that mixes Matching, LeftOnly and RightOnly links
C2_Witness ==
    /\ pc = "done"
    /\ Len(s) = 3
    /\ Len(t) = 3
    /\ \E k \in 1..Len(links) : links[k].linkType = LeftOnly
    /\ \E k \in 1..Len(links) : links[k].linkType = RightOnly
    /\ \E k \in 1..Len(links) : links[k].linkType = Matching

\* C3: every link Diff_v2 emits has the indices its kind prescribes: Matching and
\* Different carry both, LeftOnly only the left one, RightOnly only the right one.
C3_KindFixesIndices ==
    \A k \in 1..Len(links) :
        LET l == links[k]
        IN  /\ l.linkType \in {Matching, Different, LeftOnly, RightOnly}
            /\ l.linkType \in {Matching, Different} =>
                   l.leftIndex >= 0 /\ l.rightIndex >= 0
            /\ l.linkType = LeftOnly => l.leftIndex >= 0 /\ l.rightIndex = -1
            /\ l.linkType = RightOnly => l.leftIndex = -1 /\ l.rightIndex >= 0

\* an alignment of text lines that holds a Different and a LeftOnly link
C3_Witness ==
    /\ pc = "done"
    /\ kind = "line"
    /\ \E k \in 1..Len(links) : links[k].linkType = Different
    /\ \E k \in 1..Len(links) : links[k].linkType = LeftOnly

\* C4: for a sequence s whose items cost 0 against themselves, Diff_v2(s, s)
\* returns distance 0 and exactly Len(s) links, link k being Matching(k, k).
C4_SelfAlignment ==
    (pc = "done" /\ s = t /\ \A k \in 1..Len(s) : Compare(kind, s[k], s[k]) = 0) =>
        /\ distance = 0
        /\ links = [k \in 1..Len(s) |-> Link(Matching, k - 1, k - 1)]

\* a sequence of text lines, with a repeated line, aligned with itself
C4_Witness ==
    /\ pc = "done"
    /\ kind = "line"
    /\ s = t
    /\ Len(s) = 2
    /\ distance = 0

\* C5: Diff_v2(s, empty) returns distance Len(s) and LeftOnly(0..Len(s)-1);
\* Diff_v2(empty, s) returns distance Len(s) and RightOnly(0..Len(s)-1);
\* Diff_v2(empty, empty) returns distance 0 and no links.
C5_EmptySide ==
    pc = "done" =>
        /\ t = <<>> =>
               /\ distance = Len(s) * One
               /\ links = [k \in 1..Len(s) |-> Link(LeftOnly, k - 1, -1)]
        /\ s = <<>> =>
               /\ distance = Len(t) * One
               /\ links = [k \in 1..Len(t) |-> Link(RightOnly, -1, k - 1)]
        /\ (s = <<>> /\ t = <<>>) => distance = 0 /\ links = <<>>

\* a non-empty sequence aligned with the empty one
C5_Witness ==
    /\ pc = "done"
    /\ t = <<>>
    /\ Len(s) = 2
    /\ Len(links) = 2
    /\ distance = 2 * One

\* the item sets of the two families
Items(k) == IF k = "rune" THEN Alphabet ELSE Lines

\* the candidates of the backtrace at the current cell
CurA == CandA(matrix, i, j, Len(t), CostAt(kind, s, t, i, j))
CurB == CandB(matrix, i, j, Len(t))
CurC == CandC(matrix, i, j, Len(t))

\* C6: when the item cost is symmetric, the distance of (s, t) equals the one
\* Diff_v2 returns for (t, s).
C6_DistanceSymmetric ==
    (pc = "done" /\ \A x \in Items(kind), y \in Items(kind) :
                        Compare(kind, x, y) = Compare(kind, y, x)) =>
        distance = Diff_v2(kind, t, s).distance

\* two sequences of different lengths whose two alignments are not mirror images:
\* the forward one deletes where the backward one would have to insert
C6_Witness ==
    /\ pc = "done"
    /\ Len(s) = 2
    /\ Len(t) = 1
    /\ distance > One
    /\ distance < 2 * One
    /\ Diff_v2(kind, t, s).distance = distance

\* C7: at a backtrace cell (i, j) with i, j >= 1 the step is diagonal iff
\* a <= b and a <= c'; otherwise LeftOnly (to (i-1, j)) iff b <= c'; otherwise
\* RightOnly (to (i, j-1)): the tests aIsOK, bIsOK, cIsOK pick the branch of this
\* priority rule in every case (and one of them always holds).
C7_TieBreakPriority ==
    [][(pc = "trace" /\ i >= 1 /\ j >= 1) =>
          LET diag == CurA <= CurB /\ CurA <= CurC
              left == ~diag /\ CurB <= CurC
              right == ~diag /\ ~(CurB <= CurC)
              link == links'[Len(links')]
          IN  /\ pc' = "trace"
              /\ links' = Append(links, link)
              /\ diag <=> (i' = i - 1 /\ j' = j - 1
                           /\ link.linkType \in {Matching, Different})
              /\ left <=> (i' = i - 1 /\ j' = j /\ link.linkType = LeftOnly)
              /\ right <=> (i' = i /\ j' = j - 1 /\ link.linkType = RightOnly)]_vars

\* the backtrace has just left the inner cell (i+1, j) by a LeftOnly step: there
\* a was not minimal and b tied with c'
C7_Witness ==
    /\ pc = "trace"
    /\ j >= 1
    /\ links # <<>>
    /\ links[Len(links)].linkType = LeftOnly
    /\ LET n == Len(t)
           a == CandA(matrix, i + 1, j, n, CostAt(kind, s, t, i + 1, j))
           b == CandB(matrix, i + 1, j, n)
           c == CandC(matrix, i + 1, j, n)
       IN  b < a /\ b = c

\* "ab" against "ac" as rune sequences
IsAbAc == kind = "rune" /\ s = <<97, 98>> /\ t = <<97, 99>>

\* C8 as stated: Diff_v2("ab", "ac") returns distance 1 and [Matching(0,0),
\* Different(1,1)], and at the final cell (2,2) the diagonal candidate 1 ties
\* with the other two candidates.
C8_Original ==
    IsAbAc =>
        /\ pc = "done" =>
               /\ distance = One
               /\ links = <<Link(Matching, 0, 0), Link(Different, 1, 1)>>
        /\ (pc = "trace" /\ i = 2 /\ j = 2) =>
               CurA = One /\ CurB = CurA /\ CurC = CurA

\* C8 amended: Diff_v2("ab", "ac") returns distance 1 and [Matching(0,0),
\* Different(1,1)]; at the final cell (2,2) the diagonal candidate is 1 and is
\* strictly smaller than the other two candidates, which are both 2 (no tie).
C8_AbAc ==
    IsAbAc =>
        /\ pc = "done" =>
               /\ distance = One
               /\ links = <<Link(Matching, 0, 0), Link(Different, 1, 1)>>
        /\ (pc = "trace" /\ i = 2 /\ j = 2) =>
               CurA = One /\ CurB = 2 * One /\ CurC = 2 * One

\* Diff_v2("ab", "ac") has returned
C8_Witness == IsAbAc /\ pc = "done" /\ Len(links) = 2

\* C9 as stated: a link that pairs two items is Matching iff their cost is
\* exactly 0 and Different iff it is non-zero, and no Matching link pairs items
\* that differ: two distinct runes, or two text lines with different text.
C9_MatchingIffZeroCost ==
    \A k \in 1..Len(links) :
        LET l == links[k]
        IN  l.linkType \in {Matching, Different} =>
                LET x == s[l.leftIndex + 1]
                    y == t[l.rightIndex + 1]
                IN  /\ l.linkType = Matching <=> Compare(kind, x, y) = 0
                    /\ l.linkType = Different <=> Compare(kind, x, y) # 0
                    /\ l.linkType = Matching => x = y

\* the part of C9 about the link kind alone: Matching iff the cost is exactly 0,
\* Different iff it is not; a Matching link pairs equal runes, or text lines
\* whose sketches are equal
C9_KindFollowsCost ==
    \A k \in 1..Len(links) :
        LET l == links[k]
        IN  l.linkType \in {Matching, Different} =>
                LET x == s[l.leftIndex + 1]
                    y == t[l.rightIndex + 1]
                IN  /\ l.linkType = Matching <=> Compare(kind, x, y) = 0
                    /\ l.linkType = Different <=> Compare(kind, x, y) # 0
                    /\ (l.linkType = Matching /\ kind = "rune") => x = y
                    /\ (l.linkType = Matching /\ kind = "line") =>
                           x.diffHash = y.diffHash

\* C10 as stated: on every pair of strings, LevenshteinDistance_v2 .. _v6 all
\* return what the recursive LevenshteinDistance_v1 returns.
C10_AllVersionsAgree ==
    pc = "ld_done" =>
        \A v \in {"v2", "v3", "v4", "v5", "v6"} : result[v] = result.v1

\* the same, restricted to strings of one-byte characters
IsAscii(str) == \A k \in 1..Len(str) : str[k] < 128

C10_AsciiVersionsAgree ==
    (pc = "ld_done" /\ IsAscii(s) /\ IsAscii(t)) =>
        \A v \in {"v2", "v3", "v4", "v5", "v6"} : result[v] = result.v1

\* C11: the backtrace of Diff_v2 never takes the panic("not reached") branch: at
\* every backtrace cell with i >= 1 and j >= 1 one of aIsOK, bIsOK, cIsOK holds.
C11_NeverPanics ==
    /\ pc # "panic"
    /\ (pc = "trace" /\ i >= 1 /\ j >= 1) =>
           \/ aIsOK(CurA, CurB, CurC)
           \/ bIsOK(CurA, CurB, CurC)
           \/ cIsOK(CurA, CurB, CurC)

\* a backtrace cell where the insertion candidate alone is minimal, so that only
\* the last of the three tests holds
C11_Witness ==
    /\ pc = "trace"
    /\ i >= 1
    /\ j >= 1
    /\ ~aIsOK(CurA, CurB, CurC)
    /\ ~bIsOK(CurA, CurB, CurC)
    /\ cIsOK(CurA, CurB, CurC)
    /\ kind = "line"

\* the sketches have been computed
Hashed == kind = "hash" /\ pc # "hash_start"

\* DiffHash.Similarity has returned
SimilarityReturned == kind = "hash" /\ pc \in {"clamp", "hash_done"}

\* C12: DiffHash.Similarity returns a number r with 0 <= r <= 1, never NaN: the
\* division is only made with a non-zero denominator, and matchCount never
\* exceeds the denominator.
C12_SimilarityInRange ==
    /\ (kind = "hash" /\ pc = "walk") =>
           LET denominator == Denominator(Len(result.hashes), Len(result.hashes2))
           IN  /\ denominator # 0
               /\ result.matchCount <= denominator
               /\ result.matchCount <= i
               /\ result.matchCount <= j
    /\ SimilarityReturned =>
           /\ result.similarityFactor # NaN
           /\ 0 <= result.similarityFactor
           /\ result.similarityFactor <= One

\* two different strings, one longer than the window, with a similarity strictly
\* between 0 and 1
C12_Witness ==
    /\ SimilarityReturned
    /\ Len(result.hashes) > Len(result.hashes2)
    /\ Len(result.hashes2) > 4
    /\ result.similarityFactor > 0
    /\ result.similarityFactor < One

\* C13: for a non-empty string x, the similarity of sketch(x) with sketch(x) is
\* exactly 1.0: the merge loop matches every fingerprint, duplicates included.
C13_SelfSimilarityIsOne ==
    (kind = "hash" /\ s = t /\ s # <<>>) =>
        /\ pc = "walk" => i = j /\ result.matchCount = i
        /\ SimilarityReturned =>
               /\ result.matchCount = Len(result.hashes)
               /\ result.similarityFactor = One

\* a string compared with itself whose sketch holds duplicates, among the
\* characters and among the window hashes
C13_Witness ==
    /\ SimilarityReturned
    /\ s = t
    /\ Len(result.hashes) = 7
    /\ result.hashes[1] = result.hashes[2]
    /\ result.hashes[6] = result.hashes[7]
    /\ result.matchCount = 7

\* C14: DiffHash.Similarity returns 1.0 when both sketches are empty and 0.0
\* when exactly one of them is, whichever of the two it is.
C14_EmptySketches ==
    SimilarityReturned =>
        LET hashLen == Len(result.hashes)
            hashLen2 == Len(result.hashes2)
        IN  /\ (hashLen = 0 /\ hashLen2 = 0) => result.similarityFactor = One
            /\ (hashLen = 0 /\ hashLen2 # 0) => result.similarityFactor = 0
            /\ (hashLen # 0 /\ hashLen2 = 0) => result.similarityFactor = 0

\* the empty string compared with a string longer than the window
C14_Witness ==
    /\ SimilarityReturned
    /\ s = <<>>
    /\ result.hashes = <<>>
    /\ Len(result.hashes2) > 4
    /\ result.similarityFactor = 0

\* C15 as stated: for strings s # t (characters below 256, so no two window
\* hashes collide) the similarity of their sketches is strictly below 1.0,
\* strings shorter than the 4-character window included.
C15_DistinctBelowOne ==
    (SimilarityReturned /\ s # t) => result.similarityFactor < One

\* the part of C15 that holds: two distinct strings reach similarity 1.0 only
\* when both are shorter than the window and have the same characters in
\* another order (equal sketches)
C15_OnlyShortAnagrams ==
    (SimilarityReturned /\ s # t /\ result.similarityFactor >= One) =>
        /\ Len(s) < 4
        /\ Len(t) < 4
        /\ result.hashes = result.hashes2

\* how many times x occurs in the sequence q
Count(q, x) == Cardinality({k \in 1..Len(q) : q[k] = x})

\* the sketch is what Init makes of the runes: one value per character and one
\* per 4-character window, none dropped, in ascending order
IsSketchOf(hashes, runes) ==
    LET n == Len(runes)
        windows == IF n > 3 THEN n - 3 ELSE 0
        values == [k \in 1..n |-> U32(runes[k])]
                      \o [k \in 1..windows |-> WindowHash(runes, k)]
    IN  /\ Len(hashes) = n + windows
        /\ \A k \in 1..(Len(hashes) - 1) : ~U32Less(hashes[k + 1], hashes[k])
        /\ \A k \in 1..Len(values) : Count(hashes, values[k]) = Count(values, values[k])

\* C16: for a string of n characters DiffHash.Init produces exactly
\* n + max(0, n - 3) values, one per character and one per 4-character window,
\* sorted in ascending order with duplicates kept.
C16_SketchShape ==
    Hashed =>
        /\ IsSketchOf(result.hashes, DecodeString(s))
        /\ IsSketchOf(result.hashes2, DecodeString(t))

\* the sketch of a 5-character string that begins with its larger character:
\* 7 values, with repeated characters, which the sort has reordered
C16_Witness ==
    /\ Hashed
    /\ Len(s) = 5
    /\ s[1] = 50
    /\ s[2] = 49
    /\ Len(result.hashes) = 7
    /\ result.hashes[1] = result.hashes[2]
    /\ result.hashes[1] = U32(49)

\* C17: TextLine.Similarity is 0.0 whenever the sketch similarity is below 0.6
\* and is the sketch similarity otherwise, so it is 0 or lies in [0.6, 1].
C17_ClampBelowSixTenths ==
    (kind = "hash" /\ pc = "hash_done") =>
        /\ result.similarityFactor * 10 < 6 * One => result.lineSimilarity = 0
        /\ result.similarityFactor * 10 >= 6 * One =>
               result.lineSimilarity = result.similarityFactor
        /\ \/ result.lineSimilarity = 0
           \/ /\ result.lineSimilarity * 10 >= 6 * One
              /\ result.lineSimilarity <= One

\* two lines whose sketch similarity is 3 / 5 (3 of 5 values), the float32 that
\* the constant 0.6 of the clamp converts to: it is not below 0.6 and is kept
C17_Witness ==
    /\ kind = "hash"
    /\ pc = "hash_done"
    /\ result.matchCount = 3
    /\ Len(result.hashes) = 5
    /\ Len(result.hashes2) = 5
    /\ result.similarityFactor = SimilarityFloor
    /\ result.lineSimilarity = result.similarityFactor

\* C18: for an alignment that satisfies the alignment invariants for sequences
\* of length m and n, and any threshold, the present left indices of the
\* realigned alignment are exactly 0..m-1 in link order and its present right
\* indices exactly 0..n-1.
C18_RealignCoversIndices ==
    (kind = "realign" /\ pc = "realign_done") =>
        /\ LeftIndices(result.output) = ZeroTo(Len(s))
        /\ RightIndices(result.output) = ZeroTo(Len(t))

\* a realigned alignment in which a converted pair is followed by a kept link, so
\* that the buffered RightOnly link was flushed in the middle of the scan
C18_Witness ==
    /\ kind = "realign"
    /\ pc = "realign_done"
    /\ Len(links) = 3
    /\ Len(result.output) = 4
    /\ result.output[1].linkType = LeftOnly
    /\ result.output[2].linkType = RightOnly
    /\ result.output[3].linkType = Different

\* the threshold is at least the cost of every Different link of the input
ThresholdCoversAll ==
    \A k \in 1..Len(links) :
        links[k].linkType = Different => LinkCost(links[k], s, t) <= result.threshold

\* C19: when the threshold is at least as large as the cost of every Different
\* link of the alignment (as 1.0 is), the realigned alignment is the input
\* alignment, link for link.
C19_HighThresholdIsNoOp ==
    (kind = "realign" /\ pc = "realign_done" /\ ThresholdCoversAll) =>
        result.output = links

\* an alignment with a Different link whose cost is positive and below the
\* threshold 0.4, and another Different link of cost 0, realigned to itself
C19_Witness ==
    /\ kind = "realign"
    /\ pc = "realign_done"
    /\ result.threshold > 0
    /\ result.threshold < One
    /\ \E k \in 1..Len(links) :
           /\ links[k].linkType = Different
           /\ LinkCost(links[k], s, t) > 0
           /\ LinkCost(links[k], s, t) < result.threshold
    /\ \E k \in 1..Len(links) :
           /\ links[k].linkType = Different
           /\ LinkCost(links[k], s, t) = 0
    /\ result.output = links

\* the link at position p of the input is one the scan converts
ConvertedAt(p) == IsConverted(links[p], s, t, result.threshold)

\* the last position of the run of converted links that begins at position p
RECURSIVE RunEnd(_)
RunEnd(p) == IF p < Len(links) /\ ConvertedAt(p + 1) THEN RunEnd(p + 1) ELSE p

\* the first position of the run of converted links that ends at position p
RECURSIVE RunStart(_)
RunStart(p) == IF p > 1 /\ ConvertedAt(p - 1) THEN RunStart(p - 1) ELSE p

\* the LeftOnly / RightOnly links of the input links at positions a..b
LeftOnlyOf(a, b) == [k \in 1..(b - a + 1) |-> Link(LeftOnly, links[a + k - 1].leftIndex, -1)]
RightOnlyOf(a, b) == [k \in 1..(b - a + 1) |-> Link(RightOnly, -1, links[a + k - 1].rightIndex)]

\* the input from position p on, with every maximal run of converted links
\* replaced by its LeftOnly links followed by its RightOnly links
RECURSIVE RunsReplaced(_)
RunsReplaced(p) ==
    IF p > Len(links) THEN <<>>
    ELSE IF ConvertedAt(p) THEN
        LeftOnlyOf(p, RunEnd(p)) \o RightOnlyOf(p, RunEnd(p)) \o RunsReplaced(RunEnd(p) + 1)
    ELSE <<links[p]>> \o RunsReplaced(p + 1)

\* C20: every maximal run of k consecutive Different links whose costs strictly
\* exceed the threshold is replaced in the output by its k LeftOnly links
\* immediately followed by its k RightOnly links, every other link staying in
\* place; during the scan the buffer holds exactly the RightOnly links of the
\* run the scan is in (so they are all output before the next link that is not
\* converted), and nothing is left in the buffer at the end.
C20_RunsBecomeBlocks ==
    /\ (kind = "realign" /\ pc = "realign") =>
           IF i >= 1 /\ ConvertedAt(i)
           THEN result.pending = RightOnlyOf(RunStart(i), i)
           ELSE result.pending = <<>>
    /\ (kind = "realign" /\ pc = "realign_done") =>
           /\ result.pending = <<>>
           /\ result.output = RunsReplaced(1)

\* a run of two converted links followed by a kept link: two LeftOnly links,
\* then the two RightOnly links, then the kept link
C20_Witness ==
    /\ kind = "realign"
    /\ pc = "realign_done"
    /\ Len(links) = 3
    /\ ConvertedAt(1)
    /\ ConvertedAt(2)
    /\ ~ConvertedAt(3)
    /\ Len(result.output) = 5
    /\ result.output[2].linkType = LeftOnly
    /\ result.output[3].linkType = RightOnly
    /\ result.output[5] = links[3]

\* TextLine.Stringify has returned
Stringified == kind = "stringify" /\ pc = "stringify_done"

\* C21 as stated: for every text line and every maxWidth >= 0,
\* Stringify(maxWidth) returns at most maxWidth characters, and a text of at
\* most maxWidth characters is returned unchanged (dots replace trailing
\* characters only when the text was truncated).
C21_DotsOnlyWhenTruncated ==
    Stringified =>
        /\ Len(DecodeString(result.text)) <= i
        /\ Len(DecodeString(s)) <= i => result.text = s

\* the part of C21 that holds: the result has min(len, maxWidth) characters, it
\* keeps the characters of the text before index max(1, maxWidth - 3), and
\* every character from that index on is a dot, truncated or not
C21_LengthAndDots ==
    Stringified =>
        LET runes == DecodeString(s)
            out == DecodeString(result.text)
        IN  /\ result.text = TextLine_Stringify(NewTextLine(s), i)
            /\ Len(out) = (IF Len(runes) > i THEN i ELSE Len(runes))
            /\ \A k \in 1..Len(out) :
                   out[k] = (IF k - 1 > 0 /\ k - 1 >= i - 3 THEN Dot ELSE runes[k])

\* the top-level quoted parts of runes from index on, as pairs <<start, next>>:
\* a part begins at a quote that has its closing quote and lies in no earlier
\* part
RECURSIVE TopLevelParts(_, _)
TopLevelParts(runes, index) ==
    IF index >= Len(runes) THEN {}
    ELSE LET dq == parseDoubleQuotedString(runes, index)
             sq == parseSingleQuotedString(runes, index)
         IN  IF dq.matched THEN {<<index, dq.next>>} \cup TopLevelParts(runes, dq.next)
             ELSE IF sq.matched
             THEN {<<index, sq.next>>} \cup TopLevelParts(runes, sq.next)
             ELSE TopLevelParts(runes, index + 1)

\* position p (0-based) lies in a top-level quoted part / is one of its quotes
InPart(parts, p) == \E x \in parts : x[1] <= p /\ p < x[2]
IsMark(parts, p) == \E x \in parts : p = x[1] \/ p = x[2] - 1

\* position p holds an unquoted space or tab
IsSeparator(runes, parts, p) == runes[p + 1] \in {Space, Tab} /\ ~InPart(parts, p)

\* the characters at positions a..b, the quotes of the top-level parts left out
RECURSIVE Unquoted(_, _, _, _)
Unquoted(runes, parts, a, b) ==
    IF a > b THEN <<>>
    ELSE (IF IsMark(parts, a) THEN <<>> ELSE <<runes[a + 1]>>)
             \o Unquoted(runes, parts, a + 1, b)

\* the words the text stands for: the maximal stretches free of unquoted
\* whitespace, in order, each without the quotes of its top-level parts
ExpectedWords(runes) ==
    LET parts == TopLevelParts(runes, 0)
        last == Len(runes) - 1
        Sep(p) == IsSeparator(runes, parts, p)
        starts == {p \in 0..last : ~Sep(p) /\ (p = 0 \/ Sep(p - 1))}
        EndOf(a) == CHOOSE b \in a..last :
                        /\ \A q \in a..b : ~Sep(q)
                        /\ (b = last \/ Sep(b + 1))
        Start(k) == CHOOSE p \in starts : Cardinality({q \in starts : q < p}) = k - 1
    IN  [k \in 1..Cardinality(starts) |->
            EncodeString(Unquoted(runes, parts, Start(k), EndOf(Start(k))))]

\* ParseWords has returned
WordsParsed == kind = "words" /\ pc = "words_done"

\* C22: ParseWords splits its input at unquoted spaces and tabs (leading,
\* trailing and repeated whitespace give no word), removes the quotes of each
\* top-level quoted part and keeps everything between them, nested quotes and
\* whitespace included, and joins adjacent parts into one word; the examples of
\* its documentation give the documented words.
C22_WordsAsDocumented ==
    WordsParsed =>
        /\ result.words = ExpectedWords(DecodeString(s))
        /\ result.words = ParseWords(s).words
        /\ \A k \in DOMAIN DocExamples :
               s = EncodeString(DocExamples[k].input) =>
                   result.words = [n \in DOMAIN DocExamples[k].words |->
                                      EncodeString(DocExamples[k].words[n])]

\* the example abc '1 2'"1 2": two adjacent quoted parts joined into the one
\* word "1 21 2", whitespace inside the quotes kept
C22_Witness ==
    /\ WordsParsed
    /\ s = EncodeString(DocExamples[6].input)
    /\ Len(result.words) = 2
    /\ result.words[2] = <<49, 32, 50, 49, 32, 50>>

\* how many quotes (of either kind) the rune sequence q holds
QuoteCount(q) == Cardinality({k \in 1..Len(q) : q[k] \in {SingleQuote, DoubleQuote}})

\* the quotes of all the words of a word list
RECURSIVE WordsQuoteCount(_)
WordsQuoteCount(words) ==
    IF words = <<>> THEN 0
    ELSE QuoteCount(DecodeString(Head(words))) + WordsQuoteCount(Tail(words))

\* wherever they are called, the parsers stay inside the text: a matched quoted
\* string ends at least two runes after its start and no later than the end of
\* the text, an unmatched one gives the start back, and parseTopLevelWord
\* neither panics nor stands still when it matches
ParsersAdvance ==
    kind = "words" =>
        \A p \in 0..(Len(DecodeString(s)) - 1) :
            LET runes == DecodeString(s)
                dq == parseDoubleQuotedString(runes, p)
                sq == parseSingleQuotedString(runes, p)
                top == parseTopLevelWord(runes, p)
            IN  /\ dq.matched => (p + 2 <= dq.next /\ dq.next <= Len(runes))
                /\ sq.matched => (p + 2 <= sq.next /\ sq.next <= Len(runes))
                /\ ~dq.matched => dq.next = p
                /\ ~sq.matched => sq.next = p
                /\ ~top.panic
                /\ top.matched => (p < top.next /\ top.next <= Len(runes))
                /\ ~top.matched => (top.next = p /\ IsSkipped(runes[p + 1]))

\* every iteration of the loop of ParseWords moves the index forward and not
\* past the end of the text
IndexAdvances ==
    (pc = "words_loop" /\ pc' = "words_loop") => (i < i' /\ i' <= Len(result.runes))

\* every quote of the text that is not the opening or closing quote of a
\* top-level quoted part is a character of a word
LoneQuotesKept ==
    WordsParsed =>
        WordsQuoteCount(result.words) =
            QuoteCount(DecodeString(s))
                - 2 * Cardinality(TopLevelParts(DecodeString(s), 0))

\* C29: on every text over letters, space, tab and the two quotes, unmatched
\* and interleaved quotes included, ParseWords terminates: every iteration of
\* its loop and every call of the parsers moves forward without leaving the
\* text, the panic("not reached") branch is never taken, and a quote without a
\* matching closing quote stays a literal character of its word.
C29_ParseWordsTerminates ==
    /\ [](pc # "words_panic")
    /\ []ParsersAdvance
    /\ [][IndexAdvances]_vars
    /\ []LoneQuotesKept
    /\ <>(pc = "words_done")

\* the text "'"' with interleaved quotes: the leading double quote has no
\* closing quote and stays in the word, the single-quoted part gives the other
C29_Witness ==
    /\ WordsParsed
    /\ s = <<DoubleQuote, SingleQuote, DoubleQuote, SingleQuote>>
    /\ result.words = <<<<DoubleQuote, DoubleQuote>>>>

\* the sum of f over the finite set S
RECURSIVE SumOver(_, _)
SumOver(S, f) ==
    IF S = {} THEN 0
    ELSE LET x == CHOOSE y \in S : TRUE IN f[x] + SumOver(S \ {x}, f)

\* the size of the multiset intersection of the lists A and B: each value
\* counted min(multiplicity in A, multiplicity in B) times
IntersectionSize(A, B) ==
    LET values == {A[k] : k \in 1..Len(A)}
        least == [x \in values |->
                     IF Count(A, x) < Count(B, x) THEN Count(A, x) ELSE Count(B, x)]
    IN  SumOver(values, least)

\* r is num / den to within the relative error 2^-24 of one float32 rounding
IsQuotient(r, num, den) ==
    LET gap == IF r * den >= num * One THEN r * den - num * One
               ELSE num * One - r * den
    IN  r # NaN /\ gap <= den * (One \div Pow2(24))

\* C23: on two ascending fingerprint lists A and B, duplicates allowed, the
\* merge walk of DiffHash.Similarity counts the multiset intersection (of the
\* consumed prefixes at every iteration, of A and B at its end), and the result
\* is matchCount / max(|A|, |B|), as near as a float32 comes to it.
C23_WalkCountsIntersection ==
    /\ (kind = "hash" /\ pc = "walk") =>
           result.matchCount = IntersectionSize(SubSeq(result.hashes, 1, i),
                                                SubSeq(result.hashes2, 1, j))
    /\ (SimilarityReturned /\ result.hashes # <<>> /\ result.hashes2 # <<>>) =>
           /\ result.matchCount = IntersectionSize(result.hashes, result.hashes2)
           /\ IsQuotient(result.similarityFactor, result.matchCount,
                         Max(Len(result.hashes), Len(result.hashes2)))

\* two sketches of different lengths that share a value with different
\* multiplicities (twice in one, three times in the other) and also hold
\* values the other lacks
C23_Witness ==
    /\ SimilarityReturned
    /\ Len(result.hashes) < Len(result.hashes2)
    /\ \E k \in 1..Len(result.hashes) :
           /\ Count(result.hashes, result.hashes[k]) = 2
           /\ Count(result.hashes2, result.hashes[k]) = 3
    /\ result.matchCount > 2
    /\ result.matchCount < Len(result.hashes)

\* positions are the run positions of run for the kind linkType: they start
\* with 0 and end with the length of run, only run 0 can be empty, and the links
\* of run number r (0-based) have the kind linkType iff r is even
AreAlternatingRuns(positions, run, linkType) ==
    /\ Len(positions) >= 2
    /\ positions[1] = 0
    /\ positions[Len(positions)] = Len(run)
    /\ positions[1] <= positions[2]
    /\ \A r \in 2..(Len(positions) - 1) : positions[r] < positions[r + 1]
    /\ \A r \in 1..(Len(positions) - 1) :
           \A k \in (positions[r] + 1)..positions[r + 1] :
               (run[k].linkType = linkType) <=> ((r - 1) % 2 = 0)

\* the texts of the spans, one after the other
RECURSIVE SpansText(_)
SpansText(spans) ==
    IF spans = <<>> THEN <<>> ELSE Head(spans).spanText \o SpansText(Tail(spans))

\* C24: for an alignment that covers sequences of length m and n,
\* findAlternatingRunPositions(alignment, T) gives left positions that start
\* with 0, end with m, do not decrease, leave only run 0 possibly empty, and
\* put links of kind T in the even runs and links of another kind in the odd
\* runs (likewise on the right with n); constructEvenOddSpans then emits every
\* item of each sequence exactly once, in order, in spans of alternating style.
C24_RunsAlternate ==
    /\ pc # "runs_panic"
    /\ (kind = "runs" /\ pc \in {"spans", "runs_done"}) =>
           /\ Len(result.leftLinks) = Len(s)
           /\ Len(result.rightLinks) = Len(t)
           /\ AreAlternatingRuns(result.leftRunPositions, result.leftLinks,
                                 result.linkType)
           /\ AreAlternatingRuns(result.rightRunPositions, result.rightLinks,
                                 result.linkType)
           /\ <<result.leftRunPositions, result.rightRunPositions>> =
                  findAlternatingRunPositions(links, result.linkType)
    /\ (kind = "runs" /\ pc = "runs_done") =>
           /\ SpansText(result.leftSpans) = s
           /\ SpansText(result.rightSpans) = t
           /\ Len(result.leftSpans) = Len(result.leftRunPositions) - 1
           /\ \A k \in 1..Len(result.leftSpans) :
                  result.leftSpans[k].runIsOdd <=> ((k - 1) % 2 = 1)
           /\ \A k \in 1..Len(result.rightSpans) :
                  result.rightSpans[k].runIsOdd <=> ((k - 1) % 2 = 1)

\* an alignment that begins with a link of another kind than T = Matching (so
\* run 0 is empty on the left) and whose left side has three non-empty runs
C24_Witness ==
    /\ kind = "runs"
    /\ pc = "runs_done"
    /\ result.linkType = Matching
    /\ Len(links) = 4
    /\ result.leftRunPositions = <<0, 0, 1, 2, 3>>
    /\ Len(result.rightRunPositions) = 4
    /\ Len(result.leftSpans) = 4

\* the cost of one link: that of the items it pairs, 1 for a lone item
CostOfLink(link) ==
    IF link.linkType \in {Matching, Different}
    THEN Compare(kind, s[link.leftIndex + 1], t[link.rightIndex + 1])
    ELSE One

\* the costs of the links of q added to acc one after the other, each sum a
\* float32 as the sums of the matrix are
RECURSIVE CostOfLinks(_, _)
CostOfLinks(acc, q) ==
    IF q = <<>> THEN acc
    ELSE CostOfLinks(Float32Add(acc, CostOfLink(Head(q))), Tail(q))

\* the sum of the costs of the links of q without any rounding
RECURSIVE ExactCostOfLinks(_)
ExactCostOfLinks(q) ==
    IF q = <<>> THEN 0 ELSE CostOfLink(Head(q)) + ExactCostOfLinks(Tail(q))

\* the number of links of q that are not Matching
NonMatchingCount(q) == Cardinality({k \in 1..Len(q) : q[k].linkType # Matching})

\* C25: the costs of the links of the alignment Diff_v2 returns (the item cost
\* of a Matching or Different link, 1 for a LeftOnly or RightOnly link) add up
\* to the returned distance M[m][n] when they are added in the order of the
\* alignment, as the matrix adds them: at every step of the backtrace the cell
\* value plus the costs of the links found so far is M[m][n]; the sum without
\* rounding is the same wherever no sum of the path is rounded, as with the
\* binary cost of runes, where the number of non-Matching links is the distance.
C25_LinkCostsSumToDistance ==
    /\ (kind \in {"rune", "line"} /\ pc = "trace") =>
           CostOfLinks(matrix[offset(i, j, Len(t))], ReverseLinks(links))
               = matrix[offset(Len(s), Len(t), Len(t))]
    /\ (kind \in {"rune", "line"} /\ pc = "done") =>
           /\ CostOfLinks(0, links) = distance
           /\ kind = "rune" =>
                  /\ ExactCostOfLinks(links) = distance
                  /\ NonMatchingCount(links) * One = distance

\* an alignment of text lines with a Different link of fractional cost and a
\* link of cost 1: the distance is not a whole number, and it is a rounded
\* sum, off the sum without rounding
C25_Witness ==
    /\ kind = "line"
    /\ pc = "done"
    /\ distance > One
    /\ (distance % One) # 0
    /\ ExactCostOfLinks(links) # distance
    /\ \E k \in 1..Len(links) :
           links[k].linkType = Different /\ CostOfLink(links[k]) < One
    /\ \E k \in 1..Len(links) : links[k].linkType \in {LeftOnly, RightOnly}

\* the number of links of q that pair two items
PairedCount(q) == Cardinality({k \in 1..Len(q) : q[k].linkType \in {Matching, Different}})

\* a step of the backtrace loop: one more link, i, j or both one smaller and
\* none below 0, both exactly when the link pairs two items
BacktraceDescends ==
    (pc = "trace" /\ pc' = "trace") =>
        LET link == links'[Len(links')]
        IN  /\ links' = Append(links, link)
            /\ i' \in {i - 1, i}
            /\ j' \in {j - 1, j}
            /\ i' + j' < i + j
            /\ i' >= 0
            /\ j' >= 0
            /\ (i' = i - 1 /\ j' = j - 1) <=> link.linkType \in {Matching, Different}

\* the loop is left at (0, 0) only, and the reversal puts the link of the last
\* backtrace step first (and the link of the first step last)
ReturnReverses ==
    (pc = "trace" /\ pc' = "done") =>
        /\ i = 0
        /\ j = 0
        /\ Len(links') = Len(links)
        /\ \A k \in 1..Len(links) : links'[k] = links[Len(links) + 1 - k]

\* the length of the returned alignment
LinkCountBounds ==
    pc = "done" =>
        /\ Max(Len(s), Len(t)) <= Len(links)
        /\ Len(links) <= Len(s) + Len(t)
        /\ Len(links) = Len(s) + Len(t) - PairedCount(links)

\* C26: the backtrace loop of Diff_v2 always ends, at (0, 0): every step makes
\* i, j or both exactly one smaller and neither negative, so the alignment has
\* between max(m, n) and m + n links, exactly m + n less the number of
\* Matching/Different links, and after the reversal its first link is the one
\* of the last backtrace step.
C26_BacktraceTerminates ==
    /\ [][BacktraceDescends]_vars
    /\ [][ReturnReverses]_vars
    /\ []LinkCountBounds
    /\ [](pc # "panic")
    /\ <>(pc = "done")

\* a returned alignment of two sequences of three items with four links: two
\* that pair items, one LeftOnly, one RightOnly
C26_Witness ==
    /\ pc = "done"
    /\ Len(s) = 3
    /\ Len(t) = 3
    /\ Len(links) = 4
    /\ PairedCount(links) = 2
    /\ links[1].linkType \in {LeftOnly, RightOnly}

\* C27: DiffHash.Similarity gives the same value in both argument orders, so
\* TextLine.Similarity and TextLine.Compare are symmetric, and the distance
\* Diff_v2 returns for two sequences of text lines is the one it returns for
\* them in the other order.  The lines of a run are those of its first state.
C27_SimilarityIsSymmetric ==
    kind = "line" =>
        /\ pc = "start" => \A k \in 1..Len(s), l \in 1..Len(t) :
               /\ DiffHash_Similarity(s[k].diffHash, t[l].diffHash)
                      = DiffHash_Similarity(t[l].diffHash, s[k].diffHash)
               /\ TextLine_Similarity(s[k], t[l]) = TextLine_Similarity(t[l], s[k])
               /\ TextLine_Compare(s[k], t[l]) = TextLine_Compare(t[l], s[k])
               /\ Compare(kind, s[k], t[l]) = TextLine_Compare(t[l], s[k])
        /\ pc = "done" => distance = Diff_v2(kind, t, s).distance

\* one line against two: the line "abd" against "abc", whose sketches part at
\* their third value (2 of 3 values counted), and against "abcd", whose
\* sketch holds a value below the last of "abd" that "abd" lacks, so that the
\* merge walk steps over it in the second list in one argument order and in
\* the first list in the other before it counts the third match (3 of 5)
C27_Witness ==
    /\ kind = "line"
    /\ pc = "done"
    /\ Len(s) = 1
    /\ Len(t) = 2
    /\ s[1].diffHash = <<U32(97), U32(98), U32(100)>>
    /\ Len(t[1].diffHash) = 3
    /\ t[1].diffHash[3] = U32(99)
    /\ DiffHash_Similarity(s[1].diffHash, t[1].diffHash) = Float32Div(2, 3)
    /\ DiffHash_Similarity(t[1].diffHash, s[1].diffHash) = Float32Div(2, 3)
    /\ Len(t[2].diffHash) = 5
    /\ DiffHash_Similarity(s[1].diffHash, t[2].diffHash) = SimilarityFloor
    /\ DiffHash_Similarity(t[2].diffHash, s[1].diffHash) = SimilarityFloor
    /\ distance = Float32Add(Float32Sub(One, Float32Div(2, 3)), One)

\* the sketch similarity and the clamped similarity of the lines a link pairs
LinkSketchSimilarity(link) ==
    DiffHash_Similarity(s[link.leftIndex + 1].diffHash, t[link.rightIndex + 1].diffHash)
LinkSimilarity(link) == TextLine_Similarity(s[link.leftIndex + 1], t[link.rightIndex + 1])

\* the Different links of the link sequence q
DifferentLinks(q) == SelectSeq(q, LAMBDA link : link.linkType = Different)

\* C28: TextLine.Compare is exactly 1 or at most 0.4, never strictly in
\* between; so the realigner, called with the threshold 0.4 on the alignment of
\* two sequences of text lines, converts exactly the Different links whose
\* clamped similarity is 0, and every Different link it keeps pairs lines whose
\* sketch similarity is at least 0.6.
C28_CostIsOneOrSmall ==
    kind = "realign" =>
        /\ \A k \in 1..Len(s), l \in 1..Len(t) :
               LET cost == TextLine_Compare(s[k], t[l])
               IN  /\ cost = Compare("line", s[k], t[l])
                   /\ (cost = One \/ cost * 5 <= 2 * One)
        /\ \A k \in 1..Len(links) :
               links[k].linkType = Different =>
                   (IsConverted(links[k], s, t, result.threshold)
                        <=> LinkSimilarity(links[k]) = 0)
        /\ pc = "realign_done" =>
               /\ DifferentLinks(result.output) =
                      SelectSeq(DifferentLinks(links),
                                LAMBDA link : LinkSimilarity(link) # 0)
               /\ \A k \in 1..Len(result.output) :
                      result.output[k].linkType = Different =>
                          LinkSketchSimilarity(result.output[k]) * 10 >= 6 * One

\* an alignment with two Different links: one pairs lines whose sketch
\* similarity is positive but below 0.6 (cost 1 after the clamp) and is
\* converted, the other pairs lines of sketch similarity 3 / 5, whose cost
\* 1.0 - 0.6 is the float32 next below the threshold, and is kept
C28_Witness ==
    /\ kind = "realign"
    /\ pc = "realign_done"
    /\ result.threshold = HtmlThreshold
    /\ Len(links) = 2
    /\ links[1].linkType = Different
    /\ LinkSketchSimilarity(links[1]) > 0
    /\ LinkSketchSimilarity(links[1]) * 10 < 6 * One
    /\ links[2].linkType = Different
    /\ LinkSketchSimilarity(links[2]) = SimilarityFloor
    /\ LinkCost(links[2], s, t) < HtmlThreshold
    /\ Len(result.output) = 3
    /\ result.output[1].linkType = LeftOnly
    /\ result.output[2].linkType = RightOnly
    /\ result.output[3] = links[2]

\* the number of links of the input that the scan converts
ConvertedCount == Cardinality({k \in 1..Len(links) : ConvertedAt(k)})

\* C30: for a fixed threshold the realigner is idempotent: its output holds no
\* Different link whose cost strictly exceeds the threshold, so realigning the
\* output again gives the same link sequence; the first application makes the
\* alignment longer by exactly the number of Different links it converts.
C30_RealignIsIdempotent ==
    (kind = "realign" /\ pc = "realign_done") =>
        /\ result.output = RealignUsingThreshold(links, s, t, result.threshold)
        /\ \A k \in 1..Len(result.output) :
               ~IsConverted(result.output[k], s, t, result.threshold)
        /\ \A k \in 1..Len(result.output) :
               result.output[k].linkType = Different =>
                   LinkCost(result.output[k], s, t) <= result.threshold
        /\ RealignUsingThreshold(result.output, s, t, result.threshold) = result.output
        /\ Len(result.output) = Len(links) + ConvertedCount

\* an alignment with two converted links apart from each other and a kept
\* Different link: the output is two links longer and is left as it is by a
\* second application
C30_Witness ==
    /\ kind = "realign"
    /\ pc = "realign_done"
    /\ Len(links) = 4
    /\ ConvertedAt(1)
    /\ links[2].linkType = Different
    /\ ~ConvertedAt(2)
    /\ ConvertedAt(3)
    /\ Len(result.output) = 6
    /\ result.output # links
    /\ RealignUsingThreshold(result.output, s, t, result.threshold) = result.output

====
